---- MODULE Spec2Model ----
(***************************************************************************)
(* The decode-and-assemble pipeline of pcdl.timestep.TimeStep: the         *)
(* constructor, the sections of TimeStep._read_xml in source order, and    *)
(* the read accessors.  Numbers are integers: the mesh coordinates, the    *)
(* voxel edge lengths and the agent positions of the bundles drawn here    *)
(* are integral, so every quotient the code rounds is an exact rational    *)
(* a/b and is rounded from a and b.  Python dictionaries are functions     *)
(* with a finite domain, lists and table rows are sequences, data frames   *)
(* are a record of a column set and a row sequence.                        *)
(***************************************************************************)
EXTENDS Integers, Sequences, FiniteSets, TLC

VARIABLES
    self,         \* attributes of the TimeStep object set by __init__
    bundle,       \* the files of the output bundle
    pc,           \* the section of _read_xml to run next; "done"; "failed"
    err,          \* the exception that left the constructor, "" if none
    b_celltype,   \* flag b_celltype of _read_xml
    d_mcds,       \* the dictionary of dictionaries _read_xml builds
    ls_variable,  \* the expanded column names
    ar_cell,      \* the agent matrix as loaded
    self_data,    \* the attribute self.data
    held,         \* the caller holds the constructed object
    heap,         \* the mutable objects nested in self.data, by address
    ret,          \* the object the last accessor call returned
    snap          \* what every observed accessor returned right after the load

vars == <<self, bundle, pc, err, b_celltype, d_mcds, ls_variable, ar_cell,
          self_data, held, heap, ret, snap>>

-----------------------------------------------------------------------------
(* Bounds of the model.                                                    *)

\* the largest number of agents in a drawn agent matrix
MaxAgents == 2
\* agent positions reach this far below the lowest and above the highest
\* coordinate of the bounding box
MaxOut == 2
\* the largest number of lines of a drawn graph file
MaxLines == 2
\* the largest integer code int() is asked to parse
MaxCode == 12

-----------------------------------------------------------------------------
(* Python values.                                                          *)

EmptyDict == [k \in {} |-> ""]

\* dict.update({k: v})
DictUpdate(d, k, v) == [x \in (DOMAIN d) \cup {k} |-> IF x = k THEN v ELSE d[x]]

\* dict.update(e) for a dictionary e
DictMerge(d, e) == [x \in (DOMAIN d) \cup (DOMAIN e) |-> IF x \in DOMAIN e THEN e[x] ELSE d[x]]

\* d.update({id: name}) for every <<id, name>> of a document-ordered list
RECURSIVE UpdateAll(_, _)
UpdateAll(d, pairs) ==
    IF pairs = <<>> THEN d
    ELSE UpdateAll(DictUpdate(d, Head(pairs)[1], Head(pairs)[2]), Tail(pairs))

Digit == <<"0", "1", "2", "3", "4", "5", "6", "7", "8", "9">>

\* str(n) of a non-negative integer
RECURSIVE str(_)
str(n) == IF n < 10 THEN Digit[n + 1] ELSE str(n \div 10) \o Digit[(n % 10) + 1]

\* int(s) of a decimal string
int(s) == CHOOSE n \in 0..MaxCode : str(n) = s

\* str(n).zfill(3)
zfill3(n) == IF n < 10 THEN "00" \o str(n) ELSE IF n < 100 THEN "0" \o str(n) ELSE str(n)

Range(s) == {s[p] : p \in DOMAIN s}

Min(S) == CHOOSE a \in S : \A b \in S : a <= b
Max(S) == CHOOSE a \in S : \A b \in S : a >= b

\* sorted(S) of a set of integers; np.unique of an array
RECURSIVE SortedInts(_)
SortedInts(S) == IF S = {} THEN <<>> ELSE <<Min(S)>> \o SortedInts(S \ {Min(S)})

\* [d[k] for k in sorted(d, key=int)]
SortedByIntKey(d) ==
    LET keys == SortedInts({int(k) : k \in DOMAIN d})
    IN  [p \in 1..Len(keys) |-> d[CHOOSE k \in DOMAIN d : int(k) = keys[p]]]

RECURSIVE Flatten(_)
Flatten(ss) == IF ss = <<>> THEN <<>> ELSE Head(ss) \o Flatten(Tail(ss))

\* np.round(a / b) for b > 0: round half to even
Round(a, b) ==
    LET q == a \div b
        r == a - q * b
    IN  IF 2 * r < b THEN q
        ELSE IF 2 * r > b THEN q + 1
        ELSE IF q % 2 = 0 THEN q ELSE q + 1

-----------------------------------------------------------------------------
(* Static tables of the module.                                            *)

es_var_subs == {"chemotactic_sensitivities", "secretion_rates", "uptake_rates",
                "saturation_densities", "net_export_rates",
                "internalized_total_substrates", "fraction_released_at_death",
                "fraction_transferred_when_ingested"}

es_var_cell == {"cell_adhesion_affinities", "live_phagocytosis_rates", "attack_rates",
                "immunogenicities", "fusion_rates", "transformation_rates"}

es_var_death == {"death_rates"}

es_var_spatial == {"migration_bias_direction", "motility_bias_direction",
                   "motility_vector", "orientation", "position", "velocity"}

es_coor_conc == {"ID", "voxel_i", "voxel_j", "voxel_k",
                 "mesh_center_m", "mesh_center_n", "mesh_center_p",
                 "time", "runtime", "xmlfile"}

es_coor_cell == {"ID", "voxel_i", "voxel_j", "voxel_k",
                 "mesh_center_m", "mesh_center_n", "mesh_center_p",
                 "position_x", "position_y", "position_z",
                 "time", "runtime", "xmlfile"}

-----------------------------------------------------------------------------
(* The bundles drawn.                                                      *)

\* a mesh of nx * ny * nz voxels of edge 2 whose lowest centre is the origin;
\* vol is the fourth row of the mesh matrix file
Mesh(nx, ny, nz, vol) ==
    [x_coordinates |-> [i \in 1..nx |-> 2 * (i - 1)],
     y_coordinates |-> [i \in 1..ny |-> 2 * (i - 1)],
     z_coordinates |-> [i \in 1..nz |-> 2 * (i - 1)],
     bounding_box  |-> <<-1, -1, -1, 2 * nx - 1, 2 * ny - 1, 2 * nz - 1>>,
     volume        |-> vol]

UniformVolume(n) == [v \in 1..n |-> 8]

Meshes == {Mesh(3, 2, 1, UniformVolume(6)),
           Mesh(2, 2, 2, UniformVolume(8)),
           Mesh(1, 2, 2, UniformVolume(4))}

BadMeshes == {Mesh(3, 2, 1, <<8, 8, 8, 8, 8, 4>>)}

NoMesh == Mesh(0, 0, 0, <<>>)

Label(name, size, units) == [name |-> name, size |-> size, units |-> units]

BaseLabels == <<Label("ID", 1, "none"), Label("position", 3, "micron"),
                Label("cycle_model", 1, "none"), Label("current_phase", 1, "none"),
                Label("cell_type", 1, "none"), Label("chemotaxis_index", 1, "none")>>

LabelLists ==
    {BaseLabels,
     BaseLabels \o <<Label("secretion_rates", 1, "1/min")>>,
     BaseLabels \o <<Label("secretion_rates", 2, "1/min")>>,
     BaseLabels \o <<Label("attack_rates", 1, "1/min")>>,
     BaseLabels \o <<Label("attack_rates", 2, "1/min")>>,
     BaseLabels \o <<Label("death_rates", 2, "1/min"), Label("velocity", 3, "micron/min"),
                     Label("sample", 1, "none"), Label("vec", 2, "none")>>,
     <<Label("ID", 1, "none"), Label("position", 2, "micron"),
       Label("cycle_model", 1, "none"), Label("current_phase", 1, "none"),
       Label("cell_type", 1, "none"), Label("chemotaxis_index", 1, "none")>>,
     <<Label("ID", 1, "none"), Label("position", 3, "micron"),
       Label("cycle_model", 1, "none"), Label("current_phase", 1, "none"),
       Label("cell_type", 1, "none")>>}

\* the rows a producer writes for a label list: the sum of the declared sizes
RECURSIVE SumSize(_)
SumSize(ls) == IF ls = <<>> THEN 0 ELSE Head(ls).size + SumSize(Tail(ls))

SettingTables == { << <<"0", "default">> >>,
                   << <<"0", "cancer">>, <<"1", "immune">> >> }

XmlTypeTables == { << <<"0", "tumor">> >>,
                   << <<"0", "tumor">>, <<"1", "tcell">> >> }

SubstrateLists == { << [name |-> "oxygen", units |-> "mmHg"] >>,
                    << [name |-> "oxygen", units |-> "mmHg"],
                       [name |-> "glucose", units |-> "mM"] >> }

\* the value of the substrate in the voxel of centre (m, n, p): oxygen
\* differs from voxel to voxel, every other one is flat
Microenv(s_substrate, m, n, p) ==
    IF s_substrate = "oxygen" THEN 20 + m + 10 * n + 100 * p ELSE 7

\* the first three rows of the mesh matrix file: the centre of the voxel of
\* each column, the producer running x fastest, then y, then z
MeshCentres(mesh) ==
    Flatten([k \in 1..Len(mesh.z_coordinates) |->
        Flatten([j \in 1..Len(mesh.y_coordinates) |->
            [i \in 1..Len(mesh.x_coordinates) |->
                <<mesh.x_coordinates[i], mesh.y_coordinates[j], mesh.z_coordinates[k]>>]])])

\* the microenvironment matrix file: rows 0..2 the centre and row 3 the
\* volume of the voxel of the column, row 4 + s the values of species s
MicroenvMatrix(mesh, names) ==
    LET centre == MeshCentres(mesh)
    IN  [r \in 0..(3 + Len(names)) |->
            [v \in 1..Len(centre) |->
                IF r < 3 THEN centre[v][r + 1]
                ELSE IF r = 3 THEN mesh.volume[v]
                ELSE Microenv(names[r - 3], centre[v][1], centre[v][2], centre[v][3])]]

Agent(id, x, y, z, t) == [ID |-> id, x |-> x, y |-> y, z |-> z, cell_type |-> t]

\* a graph file: one <<source ID, set of IDs>> per line
GraphFiles == [neighbor |-> << <<0, {1}>>, <<1, {0}>> >>,
               attached |-> << <<0, {}>>, <<1, {}>> >>,
               spring   |-> << <<0, {1}>>, <<1, {}>> >>]

\* which graph nodes the XML has and which of the files they name exist
GraphSetup(nn, nf, an, af, sn, sf) ==
    [neighbor_node |-> nn, neighbor_file |-> nf, attached_node |-> an,
     attached_file |-> af, spring_node |-> sn, spring_file |-> sf]

GraphSetups == {GraphSetup(TRUE, TRUE, TRUE, TRUE, TRUE, TRUE),
                GraphSetup(TRUE, TRUE, TRUE, TRUE, FALSE, FALSE),
                GraphSetup(TRUE, TRUE, TRUE, TRUE, TRUE, FALSE),
                GraphSetup(FALSE, FALSE, TRUE, TRUE, TRUE, TRUE),
                GraphSetup(TRUE, TRUE, TRUE, FALSE, TRUE, TRUE)}

Bundle(settings_exists, cell_definitions, has_cell_types, cell_types, mesh, variables, labels, corrupt, rows, agents, graphs) ==
    [settings_exists  |-> settings_exists,   \* the settings document is on disk
     cell_definitions |-> cell_definitions,  \* its cell_definitions: <<ID, name>>
     has_cell_types   |-> has_cell_types,    \* the XML has a cell_types node
     cell_types       |-> cell_types,        \* its types: <<ID, text>>
     mesh             |-> mesh,
     variables        |-> variables,         \* microenvironment variables
     labels           |-> labels,            \* the XML label list
     corrupt          |-> corrupt,           \* loadmat raises ValueError on the agent matrix
     rows             |-> rows,              \* row count of the agent matrix
     agents           |-> agents,            \* its columns, one per agent
     graphs           |-> graphs]

-----------------------------------------------------------------------------
(* The constructor.                                                        *)

\* d_mcds as _read_xml creates it
NewMcds == [metadata      |-> EmptyDict,
            mesh          |-> EmptyDict,
            substrate     |-> [ds_substrate |-> EmptyDict],
            cell          |-> [ds_celltype |-> EmptyDict],
            raw_substrate |-> EmptyDict,
            raw_cell      |-> [units |-> EmptyDict]]

\* d[section][key] = value
Put(d, section, key, value) == [d EXCEPT ![section] = DictUpdate(@, key, value)]

NoMatrix == [rows |-> 0, agents |-> <<>>]

NoReturn == [acc |-> "", shared |-> FALSE, top |-> <<>>]

\* TimeStep.__init__ up to the call of _read_xml
Constructed(args, files) ==
    /\ self = args
    /\ bundle = files
    /\ pc = "settings"
    /\ err = ""
    /\ b_celltype = FALSE
    /\ d_mcds = NewMcds
    /\ ls_variable = <<>>
    /\ ar_cell = NoMatrix
    /\ self_data = <<>>
    /\ held = FALSE
    /\ heap = <<>>
    /\ ret = NoReturn
    /\ snap = <<>>

Args(settingxml, microenv, graph) ==
    [settingxml |-> settingxml, microenv |-> microenv, graph |-> graph,
     physiboss |-> TRUE, verbose |-> TRUE]

\* the exceptions that end a load
E_Settings == "FileNotFoundError: settingxml"
E_Volume   == "SystemExit: mesh is not built out of a unique voxel volume"
E_Tex      == "AttributeError: 'Element' object has no attribute 'tex'"
E_Shape    == "SystemExit: column label list and data array are incompatible"
E_NoType   == "ValueError: 'cell_type' is not in list"
E_Column   == "KeyError: a column of the agent table is missing"
E_UnitID   == "KeyError: 'ID'"

\* Raise with the exception swallowed in __init__: the object is handed out
\* with what _read_xml had built
RaiseKeepsObject(e) ==
    /\ pc' = "failed"
    /\ err' = e
    /\ held' = TRUE
    /\ self_data' = <<d_mcds>>

\* an exception leaves _read_xml and __init__: self.data is never assigned and
\* the constructor call yields no object
Raise(e) ==
    /\ pc' = "failed"
    /\ err' = e
    /\ held' = FALSE
    /\ UNCHANGED self_data

-----------------------------------------------------------------------------
(* _read_xml: read PhysiCell_settings.xml.                                 *)

ReadSettings ==
    /\ pc = "settings"
    /\ IF self.settingxml = "None"
       THEN /\ pc' = "metadata"
            /\ UNCHANGED <<err, held, self_data, d_mcds, b_celltype>>
       ELSE IF ~bundle.settings_exists
       THEN /\ Raise(E_Settings)
            /\ UNCHANGED <<d_mcds, b_celltype>>
       ELSE /\ d_mcds' = Put(d_mcds, "cell", "ds_celltype",
                             UpdateAll(d_mcds.cell.ds_celltype, bundle.cell_definitions))
            /\ b_celltype' = TRUE
            /\ pc' = "metadata"
            /\ UNCHANGED <<err, held, self_data>>
    /\ UNCHANGED <<self, bundle, ls_variable, ar_cell, heap, ret, snap>>

-----------------------------------------------------------------------------
(* _read_xml: handle metadata.                                             *)

HandleMetadata ==
    /\ pc = "metadata"
    /\ d_mcds' = [d_mcds EXCEPT !.metadata =
                     DictMerge(@, [multicellds_version |-> "MultiCellDS_2",
                                   physicell_version   |-> "PhysiCell_1.14.0",
                                   created             |-> "2024-01-01T00:00:00Z",
                                   current_time        |-> 60,
                                   time_units          |-> "min",
                                   current_runtime     |-> 120,
                                   runtime_units       |-> "sec"])]
    /\ pc' = "mesh"
    /\ UNCHANGED <<self, bundle, err, b_celltype, ls_variable, ar_cell, self_data,
                   held, heap, ret, snap>>

-----------------------------------------------------------------------------
(* _read_xml: handle mesh data.                                            *)

\* (min, max) of an axis
AxisRange(axis) == <<Min(Range(axis)), Max(Range(axis))>>

\* spacing of the m and of the n axis: 1.0 for an axis of one centre, else
\* (max - min) / (count - 1), which is exact for the meshes drawn
AxisSpacing(tr_range, axis) ==
    IF tr_range[1] = tr_range[2] THEN 1
    ELSE (tr_range[2] - tr_range[1]) \div (Len(axis) - 1)

\* the mesh dictionary for a mesh whose volume row holds one value
MeshDict(mesh) ==
    LET mnp_axis  == <<SortedInts(Range(mesh.x_coordinates)),
                       SortedInts(Range(mesh.y_coordinates)),
                       SortedInts(Range(mesh.z_coordinates))>>
        mnp_range == <<AxisRange(mnp_axis[1]), AxisRange(mnp_axis[2]),
                       AxisRange(mnp_axis[3])>>
        ijk_range == <<<<0, Len(mnp_axis[1]) - 1>>, <<0, Len(mnp_axis[2]) - 1>>,
                       <<0, Len(mnp_axis[3]) - 1>>>>
        bb        == mesh.bounding_box
        volume    == mesh.volume[1]
        dm        == AxisSpacing(mnp_range[1], mnp_axis[1])
        dn        == AxisSpacing(mnp_range[2], mnp_axis[2])
        dp        == volume \div (dm * dn)
    IN  [mnp_axis    |-> mnp_axis,
         mnp_range   |-> mnp_range,
         ijk_range   |-> ijk_range,
         ijk_axis    |-> [a \in 1..3 |-> [p \in 1..(ijk_range[a][2] + 1) |-> p - 1]],
         xyz_range   |-> <<<<bb[1], bb[4]>>, <<bb[2], bb[5]>>, <<bb[3], bb[6]>>>>,
         volume      |-> volume,
         mnp_spacing |-> <<dm, dn, dp>>]

HandleMeshVolumeUnchecked ==
    /\ pc = "mesh"
    /\ d_mcds' = [d_mcds EXCEPT
                    !.metadata = DictUpdate(@, "spatial_unit", "micron"),
                    !.mesh = DictMerge(@, MeshDict(bundle.mesh))]
    /\ pc' = "microenv"
    /\ UNCHANGED <<self, bundle, err, held, self_data, b_celltype, ls_variable, ar_cell,
                   heap, ret, snap>>

HandleMesh ==
    /\ pc = "mesh"
    /\ IF Cardinality(Range(bundle.mesh.volume)) # 1
       THEN /\ Raise(E_Volume)
            /\ UNCHANGED d_mcds
       ELSE /\ d_mcds' = [d_mcds EXCEPT
                            !.metadata = DictUpdate(@, "spatial_unit", "micron"),
                            !.mesh = DictMerge(@, MeshDict(bundle.mesh))]
            /\ pc' = "microenv"
            /\ UNCHANGED <<err, held, self_data>>
    /\ UNCHANGED <<self, bundle, b_celltype, ls_variable, ar_cell, heap, ret, snap>>

-----------------------------------------------------------------------------
(* _read_xml: handle microenvironment data.                                *)

\* a < b for two equally long sequences of integers, first element first
RECURSIVE LexLess(_, _)
LexLess(a, b) ==
    IF a = <<>> THEN FALSE
    ELSE IF Head(a) # Head(b) THEN Head(a) < Head(b)
    ELSE LexLess(Tail(a), Tail(b))

\* rows in ascending order of keys[p], rows of equal key in their given order
StableSort(rows, keys) ==
    LET Before(q, p) == LexLess(keys[q], keys[p]) \/ (keys[q] = keys[p] /\ q < p)
        rank(p) == Cardinality({q \in 1..Len(rows) : Before(q, p)}) + 1
    IN  [r \in 1..Len(rows) |-> rows[CHOOSE p \in 1..Len(rows) : rank(p) = r]]

\* ds_substrate: str(i_s) -> name, in declaration order from 0
SubstrateDict(variables) ==
    UpdateAll(EmptyDict, [p \in 1..Len(variables) |-> <<str(p - 1), variables[p].name>>])

\* raw_substrate: name -> units and parameter units
RawSubstrate(variables) ==
    UpdateAll(EmptyDict, [p \in 1..Len(variables) |->
        <<variables[p].name, [units |-> variables[p].units,
                              diffusion_coefficient |-> [units |-> "micron^2/min"],
                              decay_rate |-> [units |-> "1/min"]]>>])

\* the rows of df_conc before sorting: np.meshgrid(x, y, z, indexing='xy')
\* flattened in C order runs over y, then x, then z; the voxel index is
\* (centre - lowest centre) / spacing cast to int, which truncates
ConcRows(mesh, md) ==
    LET xs == mesh.x_coordinates
        ys == mesh.y_coordinates
        zs == mesh.z_coordinates
        x0 == Min(Range(xs))
        y0 == Min(Range(ys))
        z0 == Min(Range(zs))
        row(j, i, k) == [voxel_i |-> (xs[i] - x0) \div md.mnp_spacing[1],
                         voxel_j |-> (ys[j] - y0) \div md.mnp_spacing[2],
                         voxel_k |-> (zs[k] - z0) \div md.mnp_spacing[3],
                         mesh_center_m |-> xs[i],
                         mesh_center_n |-> ys[j],
                         mesh_center_p |-> zs[k]]
    IN  Flatten([j \in 1..Len(ys) |->
            Flatten([i \in 1..Len(xs) |-> [k \in 1..Len(zs) |-> row(j, i, k)]])])

\* np.where(np.abs(centre - axis) < 1e-10)[0][0]: the first index, from 0,
\* of the centre on the axis
AxisIndex(axis, centre) ==
    (CHOOSE q \in 1..Len(axis) :
        axis[q] = centre /\ \A o \in 1..(q - 1) : axis[o] # centre) - 1

\* d_mcds['raw_substrate'][s_substrate]['data'] of species i_s: an array of
\* zeros of the shape of the grid, then cell [j, i, k] of the centre of
\* every column i_voxel of the mesh file set to ar_microenv[4 + i_s, i_voxel]
RawData(mesh, md, ar_microenv, i_s) ==
    LET centre   == MeshCentres(mesh)
        cell(v)  == <<AxisIndex(md.mnp_axis[2], centre[v][2]),
                      AxisIndex(md.mnp_axis[1], centre[v][1]),
                      AxisIndex(md.mnp_axis[3], centre[v][3])>>
        shape    == (0..(Len(mesh.y_coordinates) - 1)) \X (0..(Len(mesh.x_coordinates) - 1))
                        \X (0..(Len(mesh.z_coordinates) - 1))
    IN  [c \in shape |->
            IF \E v \in 1..Len(centre) : cell(v) = c
            THEN ar_microenv[4 + i_s][Max({v \in 1..Len(centre) : cell(v) = c})]
            ELSE 0]

\* the cells [j, i, k] of an array of the shape of the grid in the order
\* flatten(order='C') lists them
FlattenC(mesh) ==
    Flatten([j \in 1..Len(mesh.y_coordinates) |->
        Flatten([i \in 1..Len(mesh.x_coordinates) |->
            [k \in 1..Len(mesh.z_coordinates) |-> <<j - 1, i - 1, k - 1>>]])])

\* df_conc: sorted by voxel_i, voxel_j, voxel_k (and time, one value)
ConcDf(mesh, md, ls_substrate) ==
    LET coor == ConcRows(mesh, md)
        ar_microenv == MicroenvMatrix(mesh, ls_substrate)
        rows == [p \in 1..Len(coor) |->
                    DictMerge(coor[p],
                        [conc |-> [s \in Range(ls_substrate) |->
                                      LET i_s == (CHOOSE q \in 1..Len(ls_substrate) :
                                                      ls_substrate[q] = s) - 1
                                      IN  RawData(mesh, md, ar_microenv, i_s)[FlattenC(mesh)[p]]]])]
    IN  [columns |-> {"voxel_i", "voxel_j", "voxel_k", "mesh_center_m",
                      "mesh_center_n", "mesh_center_p", "time", "runtime", "xmlfile"}
                     \cup Range(ls_substrate),
         rows    |-> StableSort(rows, [p \in 1..Len(rows) |->
                        <<rows[p].voxel_i, rows[p].voxel_j, rows[p].voxel_k>>])]

\* HandleMicroenv with the section run whatever self.microenv is
HandleMicroenvAlways ==
    /\ pc = "microenv"
    /\ LET ds  == SubstrateDict(bundle.variables)
           raw == RawSubstrate(bundle.variables)
           ls  == SortedByIntKey(ds)
       IN  d_mcds' = [d_mcds EXCEPT
                        !.raw_substrate = DictMerge(@, raw),
                        !.substrate = DictMerge(@,
                            [ds_substrate |-> ds,
                             ls_substarte |-> ls,
                             df_substarte |-> [index   |-> ls,
                                               columns |-> <<"decay_rate", "diffusion_coefficient">>],
                             df_conc      |-> ConcDf(bundle.mesh, d_mcds.mesh, ls)])]
    /\ pc' = "celltype"
    /\ UNCHANGED <<self, bundle, err, b_celltype, ls_variable, ar_cell, self_data,
                   held, heap, ret, snap>>

HandleMicroenv ==
    /\ pc = "microenv"
    /\ LET ds  == IF self.microenv THEN SubstrateDict(bundle.variables) ELSE EmptyDict
           raw == IF self.microenv THEN RawSubstrate(bundle.variables) ELSE EmptyDict
           ls  == SortedByIntKey(ds)
       IN  d_mcds' = [d_mcds EXCEPT
                        !.raw_substrate = DictMerge(@, raw),
                        !.substrate = DictMerge(@,
                            [ds_substrate |-> ds,
                             ls_substarte |-> ls,
                             df_substarte |-> [index   |-> ls,
                                               columns |-> <<"decay_rate", "diffusion_coefficient">>],
                             df_conc      |-> ConcDf(bundle.mesh, d_mcds.mesh, ls)])]
    /\ pc' = "celltype"
    /\ UNCHANGED <<self, bundle, err, b_celltype, ls_variable, ar_cell, self_data,
                   held, heap, ret, snap>>

-----------------------------------------------------------------------------
(* _read_xml: handle cell data, the cell_type ID label mapping.            *)

\* the try block over x_celldata.find('cell_types'): without the node the
\* AttributeError is caught and nothing changes
CellTypesFromXml(ds_celltype, files) ==
    IF files.has_cell_types THEN UpdateAll(ds_celltype, files.cell_types)
    ELSE ds_celltype

HandleCellType ==
    /\ pc = "celltype"
    /\ LET known == b_celltype \/ bundle.has_cell_types
       IN  IF ~known /\ bundle.labels # <<>>
           THEN \* the loop body reads x_label.tex, which no Element has
                /\ Raise(E_Tex)
                /\ UNCHANGED <<d_mcds, b_celltype>>
           ELSE /\ d_mcds' = Put(d_mcds, "cell", "ds_celltype",
                                 CellTypesFromXml(d_mcds.cell.ds_celltype, bundle))
                /\ b_celltype' = known
                /\ pc' = "labels"
                /\ UNCHANGED <<err, held, self_data>>
    /\ UNCHANGED <<self, bundle, ls_variable, ar_cell, heap, ret, snap>>

-----------------------------------------------------------------------------
(* _read_xml: handle cell data, the label list.                            *)

\* the column names one label expands to
ExpandLabel(lab, ds_substrate, ds_celltype) ==
    LET s_variable == lab.name
        i_variable == lab.size
    IN  IF s_variable \in es_var_subs
        THEN IF Cardinality(DOMAIN ds_substrate) > 0
             THEN LET ls == SortedByIntKey(ds_substrate)
                  IN  [p \in 1..Len(ls) |-> ls[p] \o "_" \o s_variable]
             ELSE [p \in 1..i_variable |-> s_variable \o "_" \o str(p - 1)]
        ELSE IF s_variable \in es_var_cell
        THEN IF Cardinality(DOMAIN ds_celltype) > 0
             THEN LET ls == SortedByIntKey(ds_celltype)
                  IN  [p \in 1..Len(ls) |-> ls[p] \o "_" \o s_variable]
             ELSE [p \in 1..i_variable |-> s_variable \o "_" \o str(p - 1)]
        ELSE IF s_variable \in es_var_death
        THEN [p \in 1..i_variable |-> s_variable \o "_" \o str(p - 1)]
        ELSE IF s_variable \in es_var_spatial
        THEN <<s_variable \o "_x", s_variable \o "_y", s_variable \o "_z">>
        ELSE IF i_variable > 1
        THEN [p \in 1..i_variable |-> s_variable \o "_" \o zfill3(p - 1)]
        ELSE <<s_variable>>

\* the keys one label adds to d_mcds['raw_cell']['units']: the expanded names,
\* but the label's own name for a simple variable or vector
UnitKeys(lab, ds_substrate, ds_celltype) ==
    IF lab.name \in es_var_subs \cup es_var_cell \cup es_var_death \cup es_var_spatial
    THEN ExpandLabel(lab, ds_substrate, ds_celltype)
    ELSE <<lab.name>>

LabelColumns(labels, ds_substrate, ds_celltype) ==
    Flatten([p \in 1..Len(labels) |-> ExpandLabel(labels[p], ds_substrate, ds_celltype)])

LabelUnits(labels, ds_substrate, ds_celltype) ==
    UpdateAll(EmptyDict,
        Flatten([p \in 1..Len(labels) |->
            LET keys == UnitKeys(labels[p], ds_substrate, ds_celltype)
            IN  [q \in 1..Len(keys) |-> <<keys[q], labels[p].units>>]]))

ExpandLabels ==
    /\ pc = "labels"
    /\ ls_variable' = LabelColumns(bundle.labels, d_mcds.substrate.ds_substrate,
                                   d_mcds.cell.ds_celltype)
    /\ d_mcds' = Put(d_mcds, "raw_cell", "units",
                     DictMerge(d_mcds.raw_cell.units,
                               LabelUnits(bundle.labels, d_mcds.substrate.ds_substrate,
                                          d_mcds.cell.ds_celltype)))
    /\ pc' = "matrix"
    /\ UNCHANGED <<self, bundle, err, b_celltype, ar_cell, self_data, held, heap,
                   ret, snap>>

-----------------------------------------------------------------------------
(* _read_xml: handle cell data, the agent matrix file.                     *)

\* LoadMat with the substitute array built with no row
LoadMatNoRows(files, ls) ==
    IF files.corrupt THEN [rows |-> 0, agents |-> <<>>]
    ELSE [rows |-> files.rows, agents |-> files.agents]

\* io.loadmat of the agent matrix; on its ValueError an array of
\* len(ls_variable) rows and no column
LoadMat(files, ls) ==
    IF files.corrupt THEN [rows |-> Len(ls), agents |-> <<>>]
    ELSE [rows |-> files.rows, agents |-> files.agents]

\* ShapeMismatch with the check left out
ShapeNotChecked(ar, ls) == FALSE

\* the check for a column label mapping error
ShapeMismatch(ar, ls) == ar.rows # Len(ls)

\* the mapping of the distinct values of the cell_type row to themselves
ObservedCellTypes(ds_celltype, ar) ==
    UpdateAll(ds_celltype,
        LET codes == SortedInts({ar.agents[p].cell_type : p \in 1..Len(ar.agents)})
        IN  [p \in 1..Len(codes) |-> <<str(codes[p]), str(codes[p])>>])

LoadCellMatrix ==
    /\ pc = "matrix"
    /\ LET ar == LoadMat(bundle, ls_variable)
       IN  IF ShapeMismatch(ar, ls_variable)
           THEN /\ Raise(E_Shape)
                /\ UNCHANGED <<d_mcds, b_celltype, ar_cell>>
           ELSE IF ~b_celltype /\ "cell_type" \notin Range(ls_variable)
           THEN /\ Raise(E_NoType)
                /\ UNCHANGED <<d_mcds, b_celltype, ar_cell>>
           ELSE /\ ar_cell' = ar
                /\ b_celltype' = TRUE
                /\ LET ds == IF b_celltype THEN d_mcds.cell.ds_celltype
                             ELSE ObservedCellTypes(d_mcds.cell.ds_celltype, ar)
                   IN  d_mcds' = [d_mcds EXCEPT !.cell =
                           DictMerge(@, [ds_celltype |-> ds,
                                         ls_celltype |-> SortedByIntKey(ds)])]
                /\ pc' = "celldf"
                /\ UNCHANGED <<err, held, self_data>>
    /\ UNCHANGED <<self, bundle, ls_variable, heap, ret, snap>>

-----------------------------------------------------------------------------
(* _read_xml: handle cell data, the agent table.                           *)

\* Clamp without the assignments for the lower end
ClampUpperOnly(v, tr_range) == IF v > tr_range[2] THEN tr_range[2] ELSE v

\* the assignments that clamp a voxel index into its range
Clamp(v, tr_range) ==
    IF v > tr_range[2] THEN tr_range[2]
    ELSE IF v < tr_range[1] THEN tr_range[1]
    ELSE v

\* np.round((position - lowest centre) / spacing).astype(int), clamped
VoxelIndex(position, tr_mnp, d, tr_ijk) == Clamp(Round(position - tr_mnp[1], d), tr_ijk)

\* df_voxel: one row per agent, its position and its voxel
VoxelRows(agents, md) ==
    [p \in 1..Len(agents) |->
        [position_x |-> agents[p].x,
         position_y |-> agents[p].y,
         position_z |-> agents[p].z,
         voxel_i |-> VoxelIndex(agents[p].x, md.mnp_range[1], md.mnp_spacing[1], md.ijk_range[1]),
         voxel_j |-> VoxelIndex(agents[p].y, md.mnp_range[2], md.mnp_spacing[2], md.ijk_range[2]),
         voxel_k |-> VoxelIndex(agents[p].z, md.mnp_range[3], md.mnp_spacing[3], md.ijk_range[3])]]

\* pd.merge(df_cell, df_voxel, on=position): every agent row paired with every
\* df_voxel row of the same position, in the order of the agent rows
MergeVoxel(agents, voxels) ==
    Flatten([p \in 1..Len(agents) |->
        LET same == SelectSeq(voxels, LAMBDA v : /\ v.position_x = agents[p].x
                                                 /\ v.position_y = agents[p].y
                                                 /\ v.position_z = agents[p].z)
        IN  [q \in 1..Len(same) |->
                [ID |-> agents[p].ID, cell_type |-> agents[p].cell_type,
                 position_x |-> same[q].position_x,
                 position_y |-> same[q].position_y,
                 position_z |-> same[q].position_z,
                 voxel_i |-> same[q].voxel_i,
                 voxel_j |-> same[q].voxel_j,
                 voxel_k |-> same[q].voxel_k]]])

SameVoxel(a, b) == a.voxel_i = b.voxel_i /\ a.voxel_j = b.voxel_j /\ a.voxel_k = b.voxel_k

\* the groupby count of the rows of a voxel, left merged on the voxel
\* indices; the density is the pair <<count, voxel volume>>
MergeCount(rows, volume) ==
    [p \in 1..Len(rows) |->
        LET n == Cardinality({q \in 1..Len(rows) : SameVoxel(rows[q], rows[p])})
        IN  [ID |-> rows[p].ID, cell_type |-> rows[p].cell_type,
             position_x |-> rows[p].position_x,
             position_y |-> rows[p].position_y,
             position_z |-> rows[p].position_z,
             voxel_i |-> rows[p].voxel_i,
             voxel_j |-> rows[p].voxel_j,
             voxel_k |-> rows[p].voxel_k,
             cell_count_voxel |-> n,
             cell_density |-> <<n, volume>>]]

\* str.find(t) > -1: t occurs in s
Find(s, t) == \E o \in 0..(Len(s) - Len(t)) : SubSeq(s, o + 1, o + Len(t)) = t

\* str.split(sep) for a separator of several characters
RECURSIVE SplitText(_, _)
SplitText(s, sep) ==
    IF ~Find(s, sep) THEN <<s>>
    ELSE LET o == CHOOSE q \in 0..(Len(s) - Len(sep)) :
                      /\ SubSeq(s, q + 1, q + Len(sep)) = sep
                      /\ \A r \in 0..(q - 1) : SubSeq(s, r + 1, r + Len(sep)) # sep
         IN  <<SubSeq(s, 1, o)>> \o SplitText(SubSeq(s, o + Len(sep) + 1, Len(s)), sep)

\* the string of a sequence of characters
RECURSIVE Text(_)
Text(chars) == IF chars = <<>> THEN "" ELSE Head(chars) \o Text(Tail(chars))

NodeSeparator == <<" ", "-", "-", " ">>
Nil == <<"<", "n", "i", "l", ">">>

\* the states file of the bundle: a row <<ID, state>> per line, <<>> if the
\* file does not exist
StatesFile(files) == IF "states" \in DOMAIN files THEN files.states ELSE <<>>

\* es_node: the nodes of the states of the file, '<nil>' discarded
es_node(file) ==
    (UNION {Range(SplitText(file[p].state, NodeSeparator)) : p \in 1..Len(file)}) \ {Nil}

\* df_physiboss: the file read with its first column as index, and the
\* columns state_nil and node_<n> added
PhysibossDf(file) ==
    [p \in 1..Len(file) |->
        [index     |-> file[p].ID,
         state     |-> file[p].state,
         state_nil |-> Find(file[p].state, Nil),
         node      |-> [n \in es_node(file) |-> Find(file[p].state, n)]]]

\* pd.merge(df_cell, df_physiboss, left_index=True, right_index=True,
\* how='left'): the index of df_cell is the one the merges before left, the
\* row numbers from 0; the column physiboss holds the row of df_physiboss
\* matched, and is empty where state, state_nil and node_<n> are NaN
MergePhysiboss(rows, df_physiboss) ==
    [p \in 1..Len(rows) |->
        LET same == SelectSeq(df_physiboss, LAMBDA b : b.index = p - 1)
        IN  DictMerge(rows[p], [physiboss |-> IF same = <<>> THEN <<>> ELSE <<same[1]>>])]

\* the left merge of df_conc on the voxel indices: every agent row paired
\* with every df_conc row of its voxel, kept with no mesh centre and no
\* concentration if none is
MergeConc(rows, conc) ==
    Flatten([p \in 1..Len(rows) |->
        LET same == SelectSeq(conc, LAMBDA c : SameVoxel(c, rows[p]))
            with(centre, values) == DictMerge(rows[p], [mesh_center |-> centre, conc |-> values])
        IN  IF same = <<>> THEN <<with(<<>>, <<>>)>>
            ELSE [q \in 1..Len(same) |->
                    with(<<same[q].mesh_center_m, same[q].mesh_center_n,
                           same[q].mesh_center_p>>, same[q].conc)]])

\* cell_type cast to int, then to str, then replaced by its label when the
\* string is a key of ds_celltype
DecodeCellType(rows, ds_celltype) ==
    [p \in 1..Len(rows) |->
        [rows[p] EXCEPT !.cell_type =
            IF str(@) \in DOMAIN ds_celltype THEN ds_celltype[str(@)] ELSE str(@)]]

\* the rows in ascending ID order; the tables here have fewer than 16 rows,
\* where the sort keeps rows of the same ID in their order
SortById(rows) == StableSort(rows, [p \in 1..Len(rows) |-> <<rows[p].ID>>])

\* the columns the section reads by name
NeededColumns == {"ID", "position_x", "position_y", "position_z", "cycle_model",
                  "current_phase", "cell_type", "chemotaxis_index"}

\* the columns of df_cell before set_index
CellColumns(ls, d, microenv) ==
    LET es_column == Range(ls) \cup {"time", "runtime", "xmlfile", "voxel_i", "voxel_j",
                                      "voxel_k", "cell_count_voxel",
                                      "cell_density_" \o d.metadata.spatial_unit \o "3"}
        vectors == {v \o "_vectorlength" :
                        v \in {w \in es_var_spatial :
                                  {w \o "_x", w \o "_y", w \o "_z"} \cap es_column # {}}}
        rates == IF microenv
                 THEN {d.substrate.ls_substarte[p] \o "_" \o r :
                          p \in 1..Len(d.substrate.ls_substarte),
                          r \in {"decay_rate", "diffusion_coefficient"}}
                 ELSE {}
    IN  es_column \cup vectors \cup rates
            \cup (d.substrate.df_conc.columns \ {"time", "runtime", "xmlfile"})

\* the table of one agent per row; states is <<>> where the physiboss block
\* is off or finds no states file, else the file in a sequence of length one
CellDf(ar, ls, d, microenv, states) ==
    LET merged  == MergeVoxel(ar.agents, VoxelRows(ar.agents, d.mesh))
        counted == MergeCount(merged, d.mesh.volume)
        stated  == IF states = <<>> THEN counted
                   ELSE MergePhysiboss(counted, PhysibossDf(states[1]))
        joined  == MergeConc(stated, d.substrate.df_conc.rows)
        decoded == DecodeCellType(joined, d.cell.ds_celltype)
        es_boss == IF states = <<>> THEN {}
                   ELSE {"state", "state_nil"}
                            \cup {"node_" \o Text(n) : n \in es_node(states[1])}
    IN  [index   |-> "ID",
         columns |-> (CellColumns(ls, d, microenv) \cup es_boss) \ {"ID"},
         rows    |-> SortById(decoded)]

AssembleCellDf ==
    /\ pc = "celldf"
    /\ IF ~(NeededColumns \subseteq Range(ls_variable))
       THEN /\ Raise(E_Column)
            /\ UNCHANGED d_mcds
       ELSE /\ LET states == IF self.physiboss /\ "states" \in DOMAIN bundle
                             THEN <<StatesFile(bundle)>> ELSE <<>>
                   df     == CellDf(ar_cell, ls_variable, d_mcds, self.microenv, states)
               IN  d_mcds' = [d_mcds EXCEPT !.cell =
                       DictMerge(@, [df_cell     |-> df,
                                     ls_cellattr |-> df.columns \ es_coor_cell])]
            /\ pc' = "units"
            /\ UNCHANGED <<err, held, self_data>>
    /\ UNCHANGED <<self, bundle, b_celltype, ls_variable, ar_cell, heap, ret, snap>>

-----------------------------------------------------------------------------
(* _read_xml: handle unit data.                                            *)

SubstrateUnits(d) ==
    UpdateAll(EmptyDict,
        Flatten([p \in 1..Len(d.substrate.ls_substarte) |->
            LET s == d.substrate.ls_substarte[p]
            IN  <<<<s, d.raw_substrate[s].units>>,
                  <<s \o "_diffusion_coefficient", d.raw_substrate[s].diffusion_coefficient.units>>,
                  <<s \o "_decay_rate", d.raw_substrate[s].decay_rate.units>>>>]))

UnitDict(d, microenv) ==
    DictMerge(DictMerge([time         |-> d.metadata.time_units,
                         runtime      |-> d.metadata.runtime_units,
                         spatial_unit |-> d.metadata.spatial_unit],
                        IF microenv THEN SubstrateUnits(d) ELSE EmptyDict),
              d.raw_cell.units)

\* del d[k]
DictDel(d, k) == [x \in (DOMAIN d) \ {k} |-> d[x]]

HandleUnits ==
    /\ pc = "units"
    /\ LET ds_unit == UnitDict(d_mcds, self.microenv)
       IN  IF "ID" \notin DOMAIN ds_unit
           THEN /\ Raise(E_UnitID)
                /\ UNCHANGED d_mcds
           ELSE /\ d_mcds' = Put(d_mcds, "metadata", "ds_unit", DictDel(ds_unit, "ID"))
                /\ pc' = "graph"
                /\ UNCHANGED <<err, held, self_data>>
    /\ UNCHANGED <<self, bundle, b_celltype, ls_variable, ar_cell, heap, ret, snap>>

-----------------------------------------------------------------------------
(* _read_xml: handle graph data.                                           *)

\* graphfile_parser with the set of a line added to the set the source ID has
RECURSIVE GraphfileParserUnion(_)
GraphfileParserUnion(lines) ==
    IF lines = <<>> THEN <<>>
    ELSE LET rest == GraphfileParserUnion(SubSeq(lines, 1, Len(lines) - 1))
             last == lines[Len(lines)]
         IN  [k \in (DOMAIN rest) \cup {last[1]} |->
                 IF k = last[1]
                 THEN last[2] \cup (IF k \in DOMAIN rest THEN rest[k] ELSE {})
                 ELSE rest[k]]

\* graphfile_parser over the lines of a file: one entry per source ID, a
\* later line of the same source replacing the earlier one
RECURSIVE graphfile_parser(_)
graphfile_parser(lines) ==
    IF lines = <<>> THEN <<>>
    ELSE LET rest == graphfile_parser(SubSeq(lines, 1, Len(lines) - 1))
             last == lines[Len(lines)]
         IN  [k \in (DOMAIN rest) \cup {last[1]} |->
                 IF k = last[1] THEN last[2] ELSE rest[k]]

EmptyGraphs == [neighbor_cells |-> <<>>, attached_cells |-> <<>>,
                spring_attached_cells |-> <<>>]

\* the exception the graph section ends with, "" if it ends normally:
\* find() of a missing node gives None, whose .find raises AttributeError;
\* open() of a missing file raises FileNotFoundError; only the AttributeError
\* of the spring graph is caught
GraphError(g) ==
    IF ~g.neighbor_node THEN "AttributeError: neighbor_graph"
    ELSE IF ~g.neighbor_file THEN "FileNotFoundError: neighbor_graph"
    ELSE IF ~g.attached_node THEN "AttributeError: attached_cells_graph"
    ELSE IF ~g.attached_file THEN "FileNotFoundError: attached_cells_graph"
    ELSE IF g.spring_node /\ ~g.spring_file THEN "FileNotFoundError: spring_attached_cells_graph"
    ELSE ""

LoadGraphs(g) ==
    [neighbor_cells        |-> graphfile_parser(GraphFiles.neighbor),
     attached_cells        |-> graphfile_parser(GraphFiles.attached),
     spring_attached_cells |-> IF g.spring_node THEN graphfile_parser(GraphFiles.spring)
                               ELSE <<>>]

HandleGraphs ==
    /\ pc = "graph"
    /\ IF self.graph /\ GraphError(bundle.graphs) # ""
       THEN /\ Raise(GraphError(bundle.graphs))
            /\ UNCHANGED d_mcds
       ELSE /\ d_mcds' = Put(d_mcds, "cell", "dei_graph",
                             IF self.graph THEN LoadGraphs(bundle.graphs) ELSE EmptyGraphs)
            /\ pc' = "return"
            /\ UNCHANGED <<err, held, self_data>>
    /\ UNCHANGED <<self, bundle, b_celltype, ls_variable, ar_cell, heap, ret, snap>>

-----------------------------------------------------------------------------
(* The objects nested in self.data, and the accessors that hand them out.   *)

\* the accessors followed here
GraphAccessors == {"get_neighbor_graph_dict", "get_attached_graph_dict",
                   "get_spring_graph_dict"}
Accessors == GraphAccessors \cup {"get_mesh_mnp_axis", "get_cell_df", "get_unit_dict"}

GraphKey(acc) ==
    IF acc = "get_neighbor_graph_dict" THEN "neighbor_cells"
    ELSE IF acc = "get_attached_graph_dict" THEN "attached_cells"
    ELSE "spring_attached_cells"

\* the elements of the container are objects that can be changed in place:
\* the sets of a graph dictionary, the arrays of the axis list, the rows of a
\* table; the strings of the unit dictionary cannot
ElementsMutable(acc) == acc # "get_unit_dict"

\* what the accessor's .copy() copies: dict.copy() and list.copy() make a new
\* container of the same element objects, DataFrame.copy() copies the data
CopyKind(acc) == IF acc = "get_cell_df" THEN "deep" ELSE "shallow"

\* the addresses of the objects nested in the dictionary d
HeapOf(d) ==
    LET graphs == {"neighbor_cells", "attached_cells", "spring_attached_cells"}
        addrs  == {<<g, k>> : g \in graphs, k \in UNION {DOMAIN d.cell.dei_graph[h] : h \in graphs}}
                  \cup {<<"mnp_axis", a>> : a \in 1..3}
                  \cup {<<"df_cell", p>> : p \in 1..Len(d.cell.df_cell.rows)}
        used   == {x \in addrs : x[1] \in graphs => x[2] \in DOMAIN d.cell.dei_graph[x[1]]}
    IN  [x \in used |->
            IF x[1] = "mnp_axis" THEN d.mesh.mnp_axis[x[2]]
            ELSE IF x[1] = "df_cell" THEN d.cell.df_cell.rows[x[2]]
            ELSE d.cell.dei_graph[x[1]][x[2]]]

\* the container an accessor reads in the dictionary d: its elements are the
\* addresses of the nested objects, or the values where those are immutable
Internal(d, acc) ==
    IF acc \in GraphAccessors
    THEN [k \in DOMAIN d.cell.dei_graph[GraphKey(acc)] |-> <<GraphKey(acc), k>>]
    ELSE IF acc = "get_mesh_mnp_axis" THEN [a \in 1..3 |-> <<"mnp_axis", a>>]
    ELSE IF acc = "get_cell_df"
    THEN [p \in 1..Len(d.cell.df_cell.rows) |-> <<"df_cell", p>>]
    ELSE d.metadata.ds_unit

Deref(h, top) == [k \in DOMAIN top |-> h[top[k]]]

\* what a call of the accessor shows, on the dictionary d and the heap h
ValueIn(d, h, acc) ==
    IF ElementsMutable(acc) THEN Deref(h, Internal(d, acc)) ELSE Internal(d, acc)

\* the object a call of the accessor returns: shared tells that its elements
\* are the objects of self.data themselves
Returned(d, h, acc) ==
    IF CopyKind(acc) = "shallow" /\ ElementsMutable(acc)
    THEN [acc |-> acc, shared |-> TRUE, top |-> Internal(d, acc)]
    ELSE [acc |-> acc, shared |-> FALSE, top |-> ValueIn(d, h, acc)]

-----------------------------------------------------------------------------
(* __init__: self.data = self._read_xml(...), and the constructor returns. *)

Return ==
    /\ pc = "return"
    /\ self_data' = <<d_mcds>>
    /\ held' = TRUE
    /\ pc' = "done"
    /\ heap' = HeapOf(d_mcds)
    /\ snap' = [acc \in Accessors |-> ValueIn(d_mcds, HeapOf(d_mcds), acc)]
    /\ UNCHANGED <<self, bundle, err, b_celltype, d_mcds, ls_variable, ar_cell, ret>>

Load ==
    \/ ReadSettings
    \/ HandleMetadata
    \/ HandleMesh
    \/ HandleMicroenv
    \/ HandleCellType
    \/ ExpandLabels
    \/ LoadCellMatrix
    \/ AssembleCellDf
    \/ HandleUnits
    \/ HandleGraphs
    \/ Return

-----------------------------------------------------------------------------
(* Loads over the control flow of the pipeline: the settings document, the *)
(* cell_types table, the label list, the agent matrix and the graph files  *)
(* vary, the agents are few.                                               *)

FewAgents == {<<>>,
              <<Agent(0, 1, 1, 0, 0)>>,
              <<Agent(1, 3, 1, 0, 1), Agent(0, 1, 1, 0, 0)>>,
              <<Agent(4, 0, 2, 0, 2), Agent(7, 9, 0, 0, 2)>>}

Init ==
    \E settingxml \in {"None", "PhysiCell_settings.xml"},
       settings_exists \in BOOLEAN,
       cell_definitions \in SettingTables,
       has_cell_types \in BOOLEAN,
       cell_types \in XmlTypeTables,
       mesh \in {Mesh(3, 2, 1, UniformVolume(6))} \cup BadMeshes,
       microenv \in BOOLEAN,
       variables \in SubstrateLists,
       labels \in LabelLists,
       corrupt \in BOOLEAN,
       agents \in FewAgents,
       graph \in BOOLEAN,
       graphs \in GraphSetups :
        /\ settingxml = "None" => (settings_exists /\ cell_definitions = << <<"0", "default">> >>)
        /\ ~settings_exists => cell_definitions = << <<"0", "default">> >>
        /\ ~has_cell_types => cell_types = << <<"0", "tumor">> >>
        /\ ~microenv => Len(variables) = 1
        /\ corrupt => agents = <<>>
        /\ ~graph => graphs = GraphSetup(TRUE, TRUE, TRUE, TRUE, TRUE, TRUE)
        /\ Constructed(Args(settingxml, microenv, graph),
                       Bundle(settings_exists, cell_definitions, has_cell_types,
                              cell_types, mesh, variables, labels, corrupt,
                              SumSize(labels), agents, graphs))

Next == Load

Spec == Init /\ [][Next]_vars

-----------------------------------------------------------------------------
(* Loads over the geometry: the mesh and the agents' positions vary, the  *)
(* rest of the bundle is one that loads.                                   *)

\* coordinates from MaxOut below the lowest to MaxOut above the highest
\* bounding box face of the meshes drawn
Coord == (-1 - MaxOut)..(5 + MaxOut)

\* the positions of agents drawn together
SharedPositions == {<<1, 1, 0>>, <<3, 3, 1>>, <<-1 - MaxOut, 0, 2>>}

\* the ID of the agent in column p of n: descending, so that the matrix
\* order is not the ID order
AgentId(p, n) == 2 * (n - p) + 1

OneAgent == {<<Agent(0, x, y, z, 0)>> : x \in Coord, y \in Coord, z \in Coord}

ManyAgents ==
    UNION {{[p \in 1..n |-> Agent(AgentId(p, n), pos[p][1], pos[p][2], pos[p][3], p % 2)] :
               pos \in [1..n -> SharedPositions]} : n \in 2..MaxAgents}

InitVoxel ==
    \E mesh \in Meshes, agents \in OneAgent \cup ManyAgents :
        Constructed(Args("PhysiCell_settings.xml", TRUE, TRUE),
                    Bundle(TRUE, << <<"0", "cancer">>, <<"1", "immune">> >>, TRUE,
                           << <<"0", "tumor">>, <<"1", "tcell">> >>, mesh,
                           << [name |-> "oxygen", units |-> "mmHg"] >>, BaseLabels,
                           FALSE, SumSize(BaseLabels), agents,
                           GraphSetup(TRUE, TRUE, TRUE, TRUE, TRUE, TRUE)))

SpecVoxel == InitVoxel /\ [][Next]_vars

-----------------------------------------------------------------------------
(* The read accessors, of a constructed object.                            *)

data == self_data[1]

get_voxel_ijk_range == data.mesh.ijk_range
get_mesh_mnp_range == data.mesh.mnp_range
get_xyz_range == data.mesh.xyz_range
get_voxel_spacing == data.mesh.mnp_spacing
get_celltype_dict == data.cell.ds_celltype
get_celltype_list == data.cell.ls_celltype

\* get_cell_df(values=1, drop=set(), keep=set()): no column is deleted
get_cell_df == data.cell.df_cell

is_in_mesh(x, y, z) ==
    LET tr == get_xyz_range
    IN  ~(\/ x < tr[1][1] \/ x > tr[1][2]
          \/ y < tr[2][1] \/ y > tr[2][2]
          \/ z < tr[3][1] \/ z > tr[3][2])

\* get_voxel_ijk(x, y, z, is_in_mesh=b): None is <<>>
get_voxel_ijk(x, y, z, b) ==
    IF b /\ ~is_in_mesh(x, y, z) THEN <<>>
    ELSE LET tr == get_mesh_mnp_range
             d  == get_voxel_spacing
         IN  <<Round(x - tr[1][1], d[1]), Round(y - tr[2][1], d[2]),
               Round(z - tr[3][1], d[3])>>

-----------------------------------------------------------------------------
(* A caller of a loaded object: it calls an accessor, and changes what it  *)
(* was handed.                                                             *)

\* the keys of the unit dictionary the caller assigns to
EditedUnits == {"time", "oxygen"}

\* a call of the accessor acc
Call(acc) ==
    /\ held
    /\ ret' = Returned(data, heap, acc)
    /\ UNCHANGED <<self, bundle, pc, err, b_celltype, d_mcds, ls_variable, ar_cell,
                   self_data, held, heap, snap>>

CallAccessor == \E acc \in Accessors : Call(acc)

\* the element after the caller changed it: set.add(99), array[0] = -1,
\* df.loc[i, 'cell_type'] = 'edited', d[k] = 'edited'
InPlace(acc, v) ==
    IF acc \in GraphAccessors THEN v \cup {99}
    ELSE IF acc = "get_mesh_mnp_axis" THEN [v EXCEPT ![1] = -1]
    ELSE IF acc = "get_cell_df" THEN [v EXCEPT !.cell_type = "edited"]
    ELSE "edited"

\* the caller changes an element of the returned object: the element is an
\* object of self.data where the copy shares its elements
MutateReturned ==
    /\ held
    /\ ret.acc # ""
    /\ \E k \in DOMAIN ret.top :
        /\ ret.acc = "get_unit_dict" => k \in EditedUnits
        /\ IF ret.shared
           THEN /\ heap' = [heap EXCEPT ![ret.top[k]] = InPlace(ret.acc, @)]
                /\ UNCHANGED ret
           ELSE /\ ret' = [ret EXCEPT !.top = [@ EXCEPT ![k] = InPlace(ret.acc, @)]]
                /\ UNCHANGED heap
    /\ UNCHANGED <<self, bundle, pc, err, b_celltype, d_mcds, ls_variable, ar_cell,
                   self_data, held, snap>>

\* the caller removes an entry of the returned container: del d[k]
DeleteReturned ==
    /\ held
    /\ ret.acc # ""
    /\ \E k \in DOMAIN ret.top :
        /\ ret.acc = "get_unit_dict" => k \in EditedUnits
        /\ ret' = [ret EXCEPT !.top = DictDel(@, k)]
    /\ UNCHANGED <<self, bundle, pc, err, b_celltype, d_mcds, ls_variable, ar_cell,
                   self_data, held, heap, snap>>

InitAccess ==
    \E graphs \in {GraphSetup(TRUE, TRUE, TRUE, TRUE, TRUE, TRUE),
                   GraphSetup(TRUE, TRUE, TRUE, TRUE, FALSE, FALSE)} :
        Constructed(Args("PhysiCell_settings.xml", TRUE, TRUE),
                    Bundle(TRUE, << <<"0", "cancer">>, <<"1", "immune">> >>, TRUE,
                           << <<"0", "tumor">>, <<"1", "tcell">> >>,
                           Mesh(3, 2, 1, UniformVolume(6)),
                           << [name |-> "oxygen", units |-> "mmHg"] >>, BaseLabels,
                           FALSE, SumSize(BaseLabels),
                           <<Agent(1, 3, 1, 0, 1), Agent(0, 1, 1, 0, 0)>>, graphs))

NextAccess ==
    \/ Load
    \/ CallAccessor
    \/ MutateReturned
    \/ DeleteReturned

SpecAccess == InitAccess /\ [][NextAccess]_vars

-----------------------------------------------------------------------------
(* Properties of a load.                                                   *)

\* the sections of _read_xml that ran to their end
AfterMatrix == {"celldf", "units", "graph", "return", "done"}
GraphErrors == {"AttributeError: neighbor_graph", "FileNotFoundError: neighbor_graph",
                "AttributeError: attached_cells_graph",
                "FileNotFoundError: attached_cells_graph",
                "FileNotFoundError: spring_attached_cells_graph"}

\* the matrix section ran: the load is past it or failed in it or later
MatrixRead ==
    \/ pc \in AfterMatrix
    \/ pc = "failed" /\ err \in {E_Shape, E_NoType, E_Column, E_UnitID} \cup GraphErrors

\* the graph section ran
GraphRead ==
    \/ pc \in {"return", "done"}
    \/ pc = "failed" /\ err \in GraphErrors

\* C1: after a successful load the agent table has exactly one row per agent
\* of the matrix file, no agent identifier twice.
C1_OneRowPerAgent ==
    held => /\ Len(get_cell_df.rows) = Len(bundle.agents)
            /\ \A p, q \in 1..Len(get_cell_df.rows) :
                  get_cell_df.rows[p].ID = get_cell_df.rows[q].ID => p = q

\* C2: whenever the XML has a cell_types table, the resolved mapping is
\* exactly that table and the type list is that table in code order,
\* whatever the settings document holds.
C2_XmlTableWins ==
    (held /\ bundle.has_cell_types) =>
        /\ get_celltype_dict = UpdateAll(EmptyDict, bundle.cell_types)
        /\ get_celltype_list = SortedByIntKey(UpdateAll(EmptyDict, bundle.cell_types))

\* a bundle and arguments that every section but the type resolution accepts
LoadsButForTypes ==
    /\ Cardinality(Range(bundle.mesh.volume)) = 1
    /\ bundle.labels = BaseLabels
    /\ self.graph => GraphError(bundle.graphs) = ""

\* C3: without a settings document and without a cell_types table the load
\* succeeds and maps each observed cell_type value to its decimal string,
\* and nothing else; with no agent the mapping is empty.
C3_ObservedTypes ==
    (self.settingxml = "None" /\ ~bundle.has_cell_types /\ LoadsButForTypes
        /\ pc \in {"done", "failed"}) =>
        /\ pc = "done"
        /\ held
        /\ DOMAIN get_celltype_dict =
               {str(bundle.agents[p].cell_type) : p \in 1..Len(bundle.agents)}
        /\ \A k \in DOMAIN get_celltype_dict : get_celltype_dict[k] = k

\* C6: past the check the number of expanded column names equals the row
\* count of the loaded matrix; when they differ the load ends at the check,
\* with no agent table assembled and no object handed out.
C6_SchemaLength ==
    /\ pc \in AfterMatrix => Len(ls_variable) = ar_cell.rows
    /\ held => Len(ls_variable) = ar_cell.rows
    /\ (MatrixRead /\ ~bundle.corrupt /\ bundle.rows # Len(ls_variable)) =>
           /\ pc = "failed"
           /\ err = E_Shape
           /\ "df_cell" \notin DOMAIN d_mcds.cell
           /\ ~held
           /\ self_data = <<>>

C6_Witness ==
    pc = "failed" /\ err = E_Shape /\ ~bundle.corrupt /\ bundle.rows # Len(ls_variable)

\* C7: when the matrix reader raises its format error the load does not end
\* there: an array of no agent and one row per expanded column name is
\* substituted, the length check passes, and the agent table has no row and
\* every expanded column; a bundle whose other files load, loads.
C7_CorruptMatrix ==
    (bundle.corrupt /\ MatrixRead) =>
        /\ err # E_Shape
        /\ LoadsButForTypes => pc # "failed"
        /\ pc \in AfterMatrix => ar_cell = [rows |-> Len(ls_variable), agents |-> <<>>]
        /\ "df_cell" \in DOMAIN d_mcds.cell =>
              /\ d_mcds.cell.df_cell.rows = <<>>
              /\ d_mcds.cell.df_cell.index = "ID"
              /\ Range(ls_variable) \ {"ID"} \subseteq d_mcds.cell.df_cell.columns
        /\ held => get_cell_df.rows = <<>>

C7_Witness ==
    /\ bundle.corrupt
    /\ held
    /\ get_cell_df.rows = <<>>
    /\ Len(ls_variable) > Len(bundle.labels)

\* every section of the dictionary is filled
Complete(d) ==
    /\ {"current_time", "current_runtime", "spatial_unit", "ds_unit"} \subseteq DOMAIN d.metadata
    /\ {"mnp_axis", "ijk_range", "xyz_range", "volume", "mnp_spacing"} \subseteq DOMAIN d.mesh
    /\ {"ds_substrate", "ls_substarte", "df_substarte", "df_conc"} \subseteq DOMAIN d.substrate
    /\ {"ds_celltype", "ls_celltype", "df_cell", "ls_cellattr", "dei_graph"} \subseteq DOMAIN d.cell

\* C8: the caller holds an object only after every section ran, and then
\* self.data holds every section; a load that fails hands out no object and
\* the data attribute is never set to a partly filled dictionary.
C8_AllOrNothing ==
    /\ held => (pc = "done" /\ err = "" /\ self_data # <<>> /\ Complete(data))
    /\ pc = "done" => held
    /\ pc = "failed" => (~held /\ err # "" /\ self_data = <<>>)
    /\ self_data # <<>> => Complete(data)

C8_Witness ==
    /\ pc = "failed"
    /\ ~held
    /\ "df_cell" \in DOMAIN d_mcds.cell
    /\ ~Complete(d_mcds)

\* C10: with graph loading enabled, a missing spring graph node and a missing
\* spring graph file alike leave the load successful, with an empty spring
\* graph and the neighbour and attached graphs loaded.
C10_SpringOptional ==
    (/\ self.graph
     /\ GraphRead
     /\ bundle.graphs.neighbor_node /\ bundle.graphs.neighbor_file
     /\ bundle.graphs.attached_node /\ bundle.graphs.attached_file
     /\ ~(bundle.graphs.spring_node /\ bundle.graphs.spring_file)) =>
        /\ pc # "failed"
        /\ held =>
              /\ data.cell.dei_graph.spring_attached_cells = <<>>
              /\ data.cell.dei_graph.neighbor_cells = graphfile_parser(GraphFiles.neighbor)
              /\ data.cell.dei_graph.attached_cells = graphfile_parser(GraphFiles.attached)

\* C5: after a successful load every row's voxel indices lie in the voxel
\* index ranges of the mesh, however far outside the mesh the agent is.
C5_VoxelInRange ==
    held => \A p \in 1..Len(get_cell_df.rows) :
                LET row == get_cell_df.rows[p]
                    tr  == get_voxel_ijk_range
                IN  /\ tr[1][1] = 0 /\ tr[2][1] = 0 /\ tr[3][1] = 0
                    /\ tr[1][2] = Len(data.mesh.mnp_axis[1]) - 1
                    /\ tr[2][2] = Len(data.mesh.mnp_axis[2]) - 1
                    /\ tr[3][2] = Len(data.mesh.mnp_axis[3]) - 1
                    /\ 0 <= row.voxel_i /\ row.voxel_i <= tr[1][2]
                    /\ 0 <= row.voxel_j /\ row.voxel_j <= tr[2][2]
                    /\ 0 <= row.voxel_k /\ row.voxel_k <= tr[3][2]

\* an agent outside the bounding box on every axis, below it on one axis and
\* above it on another, by the full distance drawn
C5_Witness ==
    /\ held
    /\ \E p \in 1..Len(get_cell_df.rows) :
          LET row == get_cell_df.rows[p]
              tr  == get_xyz_range
          IN  /\ row.position_x = tr[1][1] - MaxOut
              /\ row.position_y >= tr[2][2] + MaxOut
              /\ row.position_z >= tr[3][2] + MaxOut
              /\ row.voxel_i = 0
              /\ row.voxel_j = get_voxel_ijk_range[2][2]

\* C9: for every row of the agent table, get_voxel_ijk of the stored position
\* returns the stored voxel indices.
C9_VoxelRederived ==
    held => \A p \in 1..Len(get_cell_df.rows) :
                LET row == get_cell_df.rows[p]
                IN  get_voxel_ijk(row.position_x, row.position_y, row.position_z, TRUE)
                        = <<row.voxel_i, row.voxel_j, row.voxel_k>>

\* C4: what a caller does to an object an accessor returned never changes
\* what the loaded object holds: every later call of every accessor shows
\* what it showed right after the load.
C4_AccessorsIsolated ==
    held => \A acc \in Accessors : ValueIn(data, heap, acc) = snap[acc]

-----------------------------------------------------------------------------
(* The unit dictionary.                                                    *)

get_unit_dict == data.metadata.ds_unit

\* C11: after a successful load the unit dictionary has an entry for every
\* column of the agent table and of the concentration table, and none for
\* the identifier ID.
C11_UnitForEveryColumn ==
    held => /\ "ID" \notin DOMAIN get_unit_dict
            /\ (get_cell_df.columns \cup data.substrate.df_conc.columns) \ {"ID"}
                    \subseteq DOMAIN get_unit_dict

-----------------------------------------------------------------------------
(* graphfile_parser on the text of a graph file.  A line is a sequence of  *)
(* characters, each a string of length one.                                *)

Whitespace == {" ", "\n"}

\* str.strip()
RECURSIVE strip(_)
strip(s) ==
    IF s = <<>> THEN s
    ELSE IF s[1] \in Whitespace THEN strip(Tail(s))
    ELSE IF s[Len(s)] \in Whitespace THEN strip(SubSeq(s, 1, Len(s) - 1))
    ELSE s

\* str.split(sep): the list of the parts between the separators
RECURSIVE split(_, _)
split(s, sep) ==
    IF \A p \in 1..Len(s) : s[p] # sep THEN <<s>>
    ELSE LET p == CHOOSE q \in 1..Len(s) : s[q] = sep /\ \A o \in 1..(q - 1) : s[o] # sep
         IN  <<SubSeq(s, 1, p - 1)>> \o split(SubSeq(s, p + 1, Len(s)), sep)

DigitValue(c) == CHOOSE n \in 0..9 : Digit[n + 1] = c

\* the value of a non-empty sequence of decimal digits
RECURSIVE Decimal(_)
Decimal(s) ==
    IF Len(s) = 1 THEN DigitValue(s[1])
    ELSE 10 * Decimal(SubSeq(s, 1, Len(s) - 1)) + DigitValue(s[Len(s)])

\* int(s) of a text: blanks around the digits are ignored; -1 is ValueError
ParseInt(s) ==
    LET t == strip(s)
    IN  IF t # <<>> /\ \A p \in 1..Len(t) : t[p] \in Range(Digit)
        THEN Decimal(t) ELSE -1

ParseLineNoEmptyCase(s_line) ==
    LET parts == split(strip(s_line), ":")
        ids   == split(parts[2], ",")
    IN  IF Len(parts) # 2 \/ -1 \in {ParseInt(ids[p]) : p \in 1..Len(ids)}
              \/ ParseInt(parts[1]) = -1
        THEN <<-1, {}>>
        ELSE <<ParseInt(parts[1]), {ParseInt(ids[p]) : p \in 1..Len(ids)}>>

\* the loop body of graphfile_parser on one line: <<key, set>>, or
\* <<-1, {}>> where the line raises ValueError
ParseLine(s_line) ==
    LET parts == split(strip(s_line), ":")
    IN  IF Len(parts) # 2 THEN <<-1, {}>>
        ELSE LET s_key    == parts[1]
                 s_value  == parts[2]
                 ids      == split(s_value, ",")
                 ei_value == IF strip(s_value) # <<>>
                             THEN {ParseInt(ids[p]) : p \in 1..Len(ids)}
                             ELSE {}
             IN  IF -1 \in ei_value \/ ParseInt(s_key) = -1 THEN <<-1, {}>>
                 ELSE <<ParseInt(s_key), ei_value>>

\* graphfile_parser on the lines of a file: ValueError leaves the function
\* at the first line that raises
ParseGraphText(text) ==
    LET pairs == [p \in 1..Len(text) |-> ParseLine(text[p])]
    IN  IF \E p \in 1..Len(text) : pairs[p][1] = -1
        THEN [error |-> "ValueError", dei_graph |-> <<>>]
        ELSE [error |-> "", dei_graph |-> graphfile_parser(pairs)]

\* the texts of a key, with the identifier each stands for
KeyTexts == {[text |-> <<"5">>, id |-> 5],
             [text |-> <<"6">>, id |-> 6],
             [text |-> <<"1", "0">>, id |-> 10]}

\* the texts of a right-hand side, with the identifiers each lists
ValueTexts == {[text |-> <<>>, ids |-> {}],
               [text |-> <<" ">>, ids |-> {}],
               [text |-> <<"2", ",", "7">>, ids |-> {2, 7}],
               [text |-> <<" ", "2", ",", "7">>, ids |-> {2, 7}],
               [text |-> <<"7", ",", " ", "2", " ">>, ids |-> {2, 7}],
               [text |-> <<"5", ",", "5">>, ids |-> {5}],
               [text |-> <<"1", "2">>, ids |-> {12}]}

\* a right-hand side that is no list of identifiers
BadValueTexts == {[text |-> <<"2", ",">>, ids |-> {}]}

LineEnds == {<<>>, <<"\n">>}

GraphLines(values) ==
    {[text |-> k.text \o <<":">> \o v.text \o e, id |-> k.id, ids |-> v.ids] :
        k \in KeyTexts, v \in values, e \in LineEnds}

GraphTexts ==
    UNION {[1..n -> GraphLines(ValueTexts)] : n \in 1..MaxLines}
        \cup {<<l>> : l \in GraphLines(BadValueTexts)}

InitGraph ==
    \E lines \in GraphTexts :
        /\ self = [s_pathfile |-> "graph.txt"]
        /\ bundle = lines
        /\ pc = "graphfile_parser"
        /\ err = ""
        /\ b_celltype = FALSE
        /\ d_mcds = NewMcds
        /\ ls_variable = <<>>
        /\ ar_cell = NoMatrix
        /\ self_data = <<>>
        /\ held = FALSE
        /\ heap = <<>>
        /\ ret = NoReturn
        /\ snap = <<>>

\* a call graphfile_parser(s_pathfile) on the drawn file
CallGraphfileParser ==
    /\ pc = "graphfile_parser"
    /\ LET out == ParseGraphText([p \in 1..Len(bundle) |-> bundle[p].text])
       IN  /\ err' = out.error
           /\ pc' = IF out.error = "" THEN "parsed" ELSE "failed"
           /\ ret' = [acc |-> "graphfile_parser", shared |-> FALSE, top |-> out.dei_graph]
    /\ UNCHANGED <<self, bundle, b_celltype, d_mcds, ls_variable, ar_cell, self_data,
                   held, heap, snap>>

NextGraph == CallGraphfileParser

SpecGraph == InitGraph /\ [][NextGraph]_vars

\* the lines drawn are of the form <id>:<ids or empty>
WellFormedText == \A p \in 1..Len(bundle) : bundle[p] \in GraphLines(ValueTexts)

\* C12: graphfile_parser maps every line <id>:<ids or empty> to the entry
\* of the integer before the colon with the set of the integers after it,
\* blanks around them ignored, the empty set for an empty right-hand side;
\* the entries are those of the file, no reverse edge is added.
C12_GraphLines ==
    (pc \in {"parsed", "failed"} /\ WellFormedText) =>
        /\ pc = "parsed"
        /\ DOMAIN ret.top = {bundle[p].id : p \in 1..Len(bundle)}
        /\ \A p \in 1..Len(bundle) :
              (\A q \in (p + 1)..Len(bundle) : bundle[q].id # bundle[p].id)
                  => ret.top[bundle[p].id] = bundle[p].ids

\* the file "5: 2,7" "6:" gives {5: {2, 7}, 6: {}}
C12_Witness ==
    /\ pc = "parsed"
    /\ bundle = <<[text |-> <<"5", ":", " ", "2", ",", "7", "\n">>, id |-> 5, ids |-> {2, 7}],
                  [text |-> <<"6", ":">>, id |-> 6, ids |-> {}]>>
    /\ DOMAIN ret.top = {5, 6}
    /\ ret.top[5] = {2, 7}
    /\ ret.top[6] = {}

-----------------------------------------------------------------------------
(* The concentration table.                                                *)

\* the voxel index triple of a row
Voxel(row) == <<row.voxel_i, row.voxel_j, row.voxel_k>>

\* C13: the concentration table has one row per voxel: as many rows as the
\* product of the axis lengths, pairwise distinct voxel index triples that
\* cover the index ranges (0, axis length - 1), rows sorted by the triple.
C13_OneRowPerVoxel ==
    held =>
        LET rows == data.substrate.df_conc.rows
            axis == data.mesh.mnp_axis
        IN  /\ Len(rows) = Len(axis[1]) * Len(axis[2]) * Len(axis[3])
            /\ \A p, q \in 1..Len(rows) : Voxel(rows[p]) = Voxel(rows[q]) => p = q
            /\ {Voxel(rows[p]) : p \in 1..Len(rows)}
                   = (0..(Len(axis[1]) - 1)) \X (0..(Len(axis[2]) - 1)) \X (0..(Len(axis[3]) - 1))
            /\ get_voxel_ijk_range = <<<<0, Len(axis[1]) - 1>>, <<0, Len(axis[2]) - 1>>,
                                       <<0, Len(axis[3]) - 1>>>>
            /\ \A p \in 1..(Len(rows) - 1) :
                  Voxel(rows[p]) = Voxel(rows[p + 1]) \/ LexLess(Voxel(rows[p]), Voxel(rows[p + 1]))

-----------------------------------------------------------------------------
(* The table accessors with their arguments.  A call gives the record of   *)
(* what it did: exit tells that sys.exit left the call, out lists what was *)
(* printed, df is the table returned.                                      *)

NoDf == [columns |-> {}, rows |-> <<>>]

NearestLastIndex(axis, z) ==
    LET dist(p) == IF axis[p] >= z THEN axis[p] - z ELSE z - axis[p]
        argmin  == CHOOSE p \in 1..Len(axis) :
                      /\ \A q \in 1..Len(axis) : dist(p) <= dist(q)
                      /\ \A q \in (p + 1)..Len(axis) : dist(q) > dist(p)
    IN  axis[argmin]

\* ar_p_axis[abs(ar_p_axis - z_slice).argmin()]: argmin is the first index
\* of the least distance
Nearest(axis, z) ==
    LET dist(p) == IF axis[p] >= z THEN axis[p] - z ELSE z - axis[p]
        argmin  == CHOOSE p \in 1..Len(axis) :
                      /\ \A q \in 1..Len(axis) : dist(p) <= dist(q)
                      /\ \A q \in 1..(p - 1) : dist(q) > dist(p)
    IN  axis[argmin]

\* ColumnsToDelete with the least number of values asked of the columns
\* outside keep only
ColumnsToDeleteKeepFirst(columns, es_coor, values, drop, keep, distinct) ==
    LET es_attribute == columns \ es_coor
        es_few       == IF values > 1
                        THEN {c \in columns \ es_coor : distinct[c] < values}
                        ELSE {}
    IN  IF keep # {} THEN es_attribute \ keep
        ELSE (es_attribute \cap drop) \cup es_few

\* es_delete of both accessors: distinct[c] is the number of distinct values
\* of the column c
ColumnsToDelete(columns, es_coor, values, drop, keep, distinct) ==
    LET es_attribute == columns \ es_coor
        es_delete    == IF keep # {} THEN es_attribute \ keep ELSE es_attribute \cap drop
    IN  es_delete \cup (IF values > 1
                        THEN {c \in columns \ es_coor : distinct[c] < values}
                        ELSE {})

KeepWinsOverDrop(z_slice, halt, values, drop, keep) ==
    [exit |-> FALSE, out |-> <<>>,
     df   |-> [columns |-> (data.substrate.df_conc.columns \ es_coor_conc) \cap keep,
               rows    |-> data.substrate.df_conc.rows]]

\* get_conc_df(z_slice, halt, values, drop, keep): z_slice None is <<>>, a
\* number z is <<z>>
get_conc_df(z_slice, halt, values, drop, keep) ==
    IF keep # {} /\ drop # {} THEN [exit |-> TRUE, out |-> <<>>, df |-> NoDf]
    ELSE
        LET ar_p_axis == data.mesh.mnp_axis[3]
            off       == z_slice # <<>> /\ z_slice[1] \notin Range(ar_p_axis)
            warning   == IF off /\ self.verbose THEN <<"Warning: z_slice">> ELSE <<>>
        IN  IF off /\ halt THEN [exit |-> TRUE, out |-> warning, df |-> NoDf]
            ELSE
                LET z        == IF off THEN <<Nearest(ar_p_axis, z_slice[1])>> ELSE z_slice
                    set_to   == IF off THEN <<"z_slice set to">> ELSE <<>>
                    df_conc  == data.substrate.df_conc
                    rows     == IF z = <<>> THEN df_conc.rows
                                ELSE SelectSeq(df_conc.rows, LAMBDA r : r.mesh_center_p = z[1])
                    distinct == [c \in df_conc.columns \ es_coor_conc |->
                                    Cardinality({rows[p].conc[c] : p \in 1..Len(rows)})]
                    es_delete == ColumnsToDelete(df_conc.columns, es_coor_conc, values,
                                                 drop, keep, distinct)
                    deleted  == IF self.verbose /\ es_delete # {} THEN <<"es_delete">> ELSE <<>>
                    left     == (df_conc.columns \ es_coor_conc) \ es_delete
                IN  [exit |-> FALSE,
                     out  |-> warning \o set_to \o deleted,
                     df   |-> [columns |-> df_conc.columns \ es_delete,
                               rows    |-> [p \in 1..Len(rows) |->
                                   [rows[p] EXCEPT !.conc = [s \in left |-> rows[p].conc[s]]]]]]

\* the value of the column c in a row of the agent table: the substrate
\* columns hold the concentration of the row's voxel (-1 is NaN, for a row
\* the concentration merge left without a voxel), every column of the matrix
\* outside the ones drawn with the agent holds 0, as do the table-wide ones
CellValue(row, c) ==
    IF c = "cell_type" THEN <<row.cell_type>>
    ELSE IF c = "cell_count_voxel" THEN <<row.cell_count_voxel>>
    ELSE IF c = "cell_density_" \o data.metadata.spatial_unit \o "3" THEN row.cell_density
    ELSE IF c \in Range(data.substrate.ls_substarte)
    THEN IF row.mesh_center = <<>> THEN <<-1>> ELSE <<row.conc[c]>>
    ELSE <<0>>

DropWhatIsNamed(values, drop, keep) ==
    [exit |-> keep # {} /\ drop # {},
     out  |-> <<>>,
     df   |-> [index   |-> data.cell.df_cell.index,
               columns |-> IF keep # {} THEN data.cell.df_cell.columns \cap keep
                           ELSE data.cell.df_cell.columns \ drop,
               rows    |-> SortById(data.cell.df_cell.rows)]]

\* get_cell_df(values, drop, keep)
get_cell_df_args(values, drop, keep) ==
    IF keep # {} /\ drop # {} THEN [exit |-> TRUE, out |-> <<>>, df |-> NoDf]
    ELSE
        LET df_cell   == data.cell.df_cell
            distinct  == [c \in df_cell.columns \ es_coor_cell |->
                             Cardinality({CellValue(df_cell.rows[p], c) :
                                             p \in 1..Len(df_cell.rows)})]
            es_delete == ColumnsToDelete(df_cell.columns, es_coor_cell, values,
                                         drop, keep, distinct)
            deleted   == IF self.verbose /\ es_delete # {} THEN <<"es_delete">> ELSE <<>>
        IN  [exit |-> FALSE,
             out  |-> deleted,
             df   |-> [index   |-> df_cell.index,
                       columns |-> df_cell.columns \ es_delete,
                       rows    |-> SortById(df_cell.rows)]]

-----------------------------------------------------------------------------
(* A caller of the table accessors of a loaded object.                     *)

\* the z_slice arguments: None, and the coordinates from below the lowest
\* to above the highest z centre of the meshes drawn
SliceArgs == {<<>>} \cup {<<z>> : z \in -2..4}

\* the least numbers of distinct values asked for
ValuesArgs == {1, 2, 4}

\* the column sets given as drop and as keep
ColumnArgs == [drop : {{}, {"oxygen"}, {"cell_type", "voxel_i", "time", "position_x"}},
               keep : {{}, {"oxygen"}, {"cell_count_voxel"}}]

\* one call is followed from a loaded object: a call assigns no attribute of
\* the object, a later call reads what this one read
CallGetConcDf ==
    /\ held
    /\ ret = NoReturn
    /\ \E z_slice \in SliceArgs, halt \in BOOLEAN, values \in ValuesArgs, c \in ColumnArgs :
          ret' = [acc  |-> "get_conc_df",
                  args |-> [z_slice |-> z_slice, halt |-> halt, values |-> values,
                            drop |-> c.drop, keep |-> c.keep],
                  res  |-> get_conc_df(z_slice, halt, values, c.drop, c.keep)]
    /\ UNCHANGED <<self, bundle, pc, err, b_celltype, d_mcds, ls_variable, ar_cell,
                   self_data, held, heap, snap>>

CallGetCellDf ==
    /\ held
    /\ ret = NoReturn
    /\ \E values \in ValuesArgs, c \in ColumnArgs :
          ret' = [acc  |-> "get_cell_df",
                  args |-> [values |-> values, drop |-> c.drop, keep |-> c.keep],
                  res  |-> get_cell_df_args(values, c.drop, c.keep)]
    /\ UNCHANGED <<self, bundle, pc, err, b_celltype, d_mcds, ls_variable, ar_cell,
                   self_data, held, heap, snap>>

\* set_verbose_false and set_verbose_true
SetVerbose ==
    /\ held
    /\ ret = NoReturn
    /\ \E b \in BOOLEAN : self' = [self EXCEPT !.verbose = b]
    /\ UNCHANGED <<bundle, pc, err, b_celltype, d_mcds, ls_variable, ar_cell,
                   self_data, held, heap, ret, snap>>

\* agent matrices in and out of ID order, with and without a shared position
QueryAgents == {<<>>,
                <<Agent(0, 1, 1, 0, 0)>>,
                <<Agent(5, 3, 1, 0, 1), Agent(2, 1, 1, 2, 0), Agent(3, 0, 3, 0, 1)>>,
                <<Agent(3, 1, 1, 0, 1), Agent(1, 1, 1, 0, 0)>>}

InitQuery ==
    \E mesh \in Meshes, variables \in SubstrateLists, agents \in QueryAgents :
        Constructed(Args("PhysiCell_settings.xml", TRUE, TRUE),
                    Bundle(TRUE, << <<"0", "cancer">>, <<"1", "immune">> >>, TRUE,
                           << <<"0", "tumor">>, <<"1", "tcell">> >>, mesh,
                           variables, BaseLabels, FALSE, SumSize(BaseLabels), agents,
                           GraphSetup(TRUE, TRUE, TRUE, TRUE, TRUE, TRUE)))

NextQuery ==
    \/ Load
    \/ CallGetConcDf
    \/ CallGetCellDf
    \/ SetVerbose

SpecQuery == InitQuery /\ [][NextQuery]_vars

-----------------------------------------------------------------------------
(* Properties of the table accessors.                                      *)

Distance(a, b) == IF a >= b THEN a - b ELSE b - a

\* the rows of the returned concentration table are the stored rows of the
\* z centre c, each with the concentrations of the columns left
RowsOfCentre(df, c) ==
    LET stored == SelectSeq(data.substrate.df_conc.rows, LAMBDA r : r.mesh_center_p = c)
    IN  /\ Len(df.rows) = Len(stored)
        /\ \A p \in 1..Len(stored) :
              /\ Voxel(df.rows[p]) = Voxel(stored[p])
              /\ df.rows[p].mesh_center_m = stored[p].mesh_center_m
              /\ df.rows[p].mesh_center_n = stored[p].mesh_center_n
              /\ df.rows[p].mesh_center_p = c
              /\ \A s \in DOMAIN df.rows[p].conc : df.rows[p].conc[s] = stored[p].conc[s]

\* C14: get_conc_df with a z_slice off the z centres aborts if halt is true
\* and else returns the stored rows of the nearest centre, the smaller one
\* of two equally near; a z_slice that is a centre is used unchanged and
\* z_slice None returns all rows.
C14_SliceSnapped ==
    (ret.acc = "get_conc_df" /\ ~(ret.args.keep # {} /\ ret.args.drop # {})) =>
        LET a    == ret.args
            axis == Range(data.mesh.mnp_axis[3])
        IN  IF a.z_slice = <<>>
            THEN /\ ~ret.res.exit
                 /\ Len(ret.res.df.rows) = Len(data.substrate.df_conc.rows)
                 /\ \A c \in axis :
                       RowsOfCentre([rows |-> SelectSeq(ret.res.df.rows,
                                                 LAMBDA r : r.mesh_center_p = c)], c)
            ELSE IF a.z_slice[1] \in axis
            THEN ~ret.res.exit /\ RowsOfCentre(ret.res.df, a.z_slice[1])
            ELSE IF a.halt THEN ret.res.exit
            ELSE /\ ~ret.res.exit
                 /\ \E c \in axis :
                       /\ \A e \in axis : Distance(c, a.z_slice[1]) <= Distance(e, a.z_slice[1])
                       /\ \A e \in axis : Distance(c, a.z_slice[1]) = Distance(e, a.z_slice[1])
                                             => c <= e
                       /\ RowsOfCentre(ret.res.df, c)

\* z_slice 1 between the centres 0 and 2: the rows of centre 0 are returned
C14_Witness ==
    /\ ret.acc = "get_conc_df"
    /\ ret.args.z_slice = <<1>>
    /\ ~ret.args.halt
    /\ data.mesh.mnp_axis[3] = <<0, 2>>
    /\ ~ret.res.exit
    /\ Len(ret.res.df.rows) = 4
    /\ \A p \in 1..4 : ret.res.df.rows[p].mesh_center_p = 0

\* C15: get_cell_df and get_conc_df abort, returning no table, whenever keep
\* and drop are both non-empty, whatever the other arguments are; nothing is
\* printed or filtered before, and the stored tables stay as loaded.
C15_KeepAndDrop ==
    (ret.acc \in {"get_conc_df", "get_cell_df"}
        /\ ret.args.keep # {} /\ ret.args.drop # {}) =>
        /\ ret.res.exit
        /\ ret.res.out = <<>>
        /\ ret.res.df = NoDf
        /\ self_data = <<d_mcds>>

C15_Witness ==
    /\ ret.acc = "get_cell_df"
    /\ ret.args.keep = {"cell_count_voxel"}
    /\ ret.args.drop = {"oxygen"}
    /\ ret.args.values = 2
    /\ ret.res.exit

-----------------------------------------------------------------------------
(* The voxel volume.                                                       *)

get_voxel_volume == data.mesh.volume

\* the mesh section ran
MeshRead == pc \notin {"settings", "metadata", "mesh"} /\ err # E_Settings

\* C16: the load aborts when the volume row of the mesh matrix holds more
\* than one distinct value; after a successful load get_voxel_volume is the
\* one value all voxels share.
C16_OneVolume ==
    /\ (MeshRead /\ Cardinality(Range(bundle.mesh.volume)) > 1) =>
           (pc = "failed" /\ err = E_Volume /\ ~held /\ "volume" \notin DOMAIN d_mcds.mesh)
    /\ held => Range(bundle.mesh.volume) = {get_voxel_volume}

C16_Witness ==
    /\ pc = "failed"
    /\ err = E_Volume
    /\ Cardinality(Range(bundle.mesh.volume)) = 2

\* C17: for arguments that do not abort, get_cell_df and get_conc_df remove
\* no column of the coordinate set, named in drop, missing in keep or of
\* fewer than values distinct values as it may be, remove nothing but
\* columns of the stored table, and the agent table stays indexed by ID.
C17_EssentialColumnsKept ==
    /\ (ret.acc = "get_conc_df" /\ ~ret.res.exit) =>
          /\ data.substrate.df_conc.columns \cap es_coor_conc \subseteq ret.res.df.columns
          /\ ret.res.df.columns \subseteq data.substrate.df_conc.columns
    /\ (ret.acc = "get_cell_df" /\ ~ret.res.exit) =>
          /\ data.cell.df_cell.columns \cap es_coor_cell \subseteq ret.res.df.columns
          /\ ret.res.df.columns \subseteq data.cell.df_cell.columns
          /\ ret.res.df.index = "ID"
          /\ "ID" \notin ret.res.df.columns

\* drop names coordinate columns and cell_type, values asks for 4 distinct
\* values: cell_type goes, the coordinate columns stay
C17_Witness ==
    /\ ret.acc = "get_cell_df"
    /\ ret.args.drop = {"cell_type", "voxel_i", "time", "position_x"}
    /\ ret.args.values = 4
    /\ ~ret.res.exit
    /\ Len(ret.res.df.rows) = 3
    /\ {"voxel_i", "time", "position_x", "xmlfile"} \subseteq ret.res.df.columns
    /\ "cell_type" \notin ret.res.df.columns

-----------------------------------------------------------------------------
(* Two objects A and B of separate constructor calls.  self maps the       *)
(* object to its attributes, each the address of the object it is bound    *)
(* to; heap maps the address to the value.                                 *)

Objects == {"A", "B"}

\* the dictionary created once, when def __init__(..., custom_data_type={})
\* is evaluated
DefaultCustomDataType == <<"__init__", "custom_data_type">>

\* the dictionary a caller passes as custom_data_type
OwnCustomDataType == [sample |-> "bool"]

\* the columns a caller types afterwards: o.custom_data_type[k] = int
TypedLater == {"sample", "dead", "cell_count_voxel"}

\* the part of d_mcds followed here: do_type as updated from
\* self.custom_data_type, and a table value
DataOf(custom_data_type) ==
    [do_type |-> DictMerge([cell_type |-> "str"], custom_data_type),
     df_cell |-> "loaded"]

NotConstructed == [constructed |-> FALSE, custom_data_type |-> <<"", "">>, data |-> <<"", "">>]

InitShare ==
    /\ self = [o \in Objects |-> NotConstructed]
    /\ bundle \in [Objects -> [custom_data_type : {"default", "own"}]]
    /\ heap = [a \in {DefaultCustomDataType} |-> EmptyDict]
    /\ pc = "share"
    /\ err = ""
    /\ b_celltype = FALSE
    /\ d_mcds = NewMcds
    /\ ls_variable = <<>>
    /\ ar_cell = NoMatrix
    /\ self_data = <<>>
    /\ held = FALSE
    /\ ret = NoReturn
    /\ snap = <<>>

\* o = TimeStep(xmlfile) or o = TimeStep(xmlfile, custom_data_type={...}):
\* the attribute is bound to the object passed or to the default object,
\* d_mcds is a new dictionary
Construct(o) ==
    /\ pc = "share"
    /\ ~self[o].constructed
    /\ LET passed == IF bundle[o].custom_data_type = "default"
                     THEN EmptyDict
                     ELSE [a \in {<<o, "custom_data_type">>} |-> OwnCustomDataType]
           custom == IF bundle[o].custom_data_type = "default"
                     THEN DefaultCustomDataType ELSE <<o, "custom_data_type">>
           known  == DictMerge(heap, passed)
       IN  /\ self' = [self EXCEPT ![o] = [constructed |-> TRUE,
                                           custom_data_type |-> custom,
                                           data |-> <<o, "data">>]]
           /\ heap' = DictMerge(known, [a \in {<<o, "data">>} |-> DataOf(known[custom])])
    /\ UNCHANGED <<bundle, pc, err, b_celltype, d_mcds, ls_variable, ar_cell,
                   self_data, held, ret, snap>>

ConstructObject == \E o \in Objects : Construct(o)

\* A.custom_data_type[k] = int
MutateCustomDataType ==
    /\ pc = "share"
    /\ self["A"].constructed
    /\ \E k \in TypedLater :
          heap' = [heap EXCEPT ![self["A"].custom_data_type] = DictUpdate(@, k, "int")]
    /\ UNCHANGED <<self, bundle, pc, err, b_celltype, d_mcds, ls_variable, ar_cell,
                   self_data, held, ret, snap>>

\* an in-place change of a table of A.data
MutateData ==
    /\ pc = "share"
    /\ self["A"].constructed
    /\ heap' = [heap EXCEPT ![self["A"].data] = [@ EXCEPT !.df_cell = "edited"]]
    /\ UNCHANGED <<self, bundle, pc, err, b_celltype, d_mcds, ls_variable, ar_cell,
                   self_data, held, ret, snap>>

NextShare ==
    \/ ConstructObject
    \/ MutateCustomDataType
    \/ MutateData

SpecShare == InitShare /\ [][NextShare]_vars

\* C18: two loads share no mutable state: whatever is changed in place
\* through A, the attributes and the data of B are those a load with B's
\* arguments gives.
C18_LoadsIndependent ==
    (pc = "share" /\ self["B"].constructed) =>
        LET passed == IF bundle["B"].custom_data_type = "default"
                      THEN EmptyDict ELSE OwnCustomDataType
        IN  /\ heap[self["B"].custom_data_type] = passed
            /\ heap[self["B"].data] = DataOf(passed)

-----------------------------------------------------------------------------
(* What the recoverable conditions print.                                  *)

\* the except ValueError branch of the matrix read
MatrixNotice(verbose, corrupt) ==
    IF corrupt /\ verbose THEN <<"Warning: corrupt cells file">> ELSE <<>>

\* the physiboss block: the states file is read if it exists
PhysibossNotice(verbose, physiboss, exists) ==
    IF physiboss /\ ~exists /\ verbose THEN <<"Warning: physiboss file missing">> ELSE <<>>

-----------------------------------------------------------------------------
(* The order of the agent table.                                           *)

\* the table is indexed by ID and its rows are in strictly ascending ID order
AscendingById(df) ==
    /\ df.index = "ID"
    /\ \A p \in 1..(Len(df.rows) - 1) : df.rows[p].ID < df.rows[p + 1].ID

\* C20: the stored agent table and every table get_cell_df returns is
\* indexed by ID with its rows in strictly ascending ID order, whatever the
\* order of the agents in the matrix file.
C20_SortedById ==
    /\ held => AscendingById(data.cell.df_cell)
    /\ (ret.acc = "get_cell_df" /\ ~ret.res.exit) => AscendingById(ret.res.df)

-----------------------------------------------------------------------------
(* A load without the microenvironment.                                    *)

get_substrate_list == data.substrate.ls_substarte
get_substrate_dict == data.substrate.ds_substrate

\* the column names and unit keys a substrate of the XML stands for
SubstrateNames ==
    UNION {{bundle.variables[p].name,
            bundle.variables[p].name \o "_decay_rate",
            bundle.variables[p].name \o "_diffusion_coefficient"} :
              p \in 1..Len(bundle.variables)}

\* a bundle and arguments no section rejects when the substrates are not
\* resolved: the settings document is there if asked for, a cell type
\* mapping is declared, the volume is unique, the labels name the columns
\* the agent table needs and expand to as many names as the matrix has rows,
\* the graph files are there
LoadsWithoutMicroenv ==
    /\ self.settingxml # "None" => bundle.settings_exists
    /\ self.settingxml # "None" \/ bundle.has_cell_types
    /\ Cardinality(Range(bundle.mesh.volume)) = 1
    /\ LET types   == CellTypesFromXml(IF self.settingxml # "None"
                                        THEN UpdateAll(EmptyDict, bundle.cell_definitions)
                                        ELSE EmptyDict, bundle)
           columns == LabelColumns(bundle.labels, EmptyDict, types)
       IN  /\ NeededColumns \subseteq Range(columns)
           /\ bundle.corrupt \/ bundle.rows = Len(columns)
    /\ self.graph => GraphError(bundle.graphs) = ""

\* C21: with microenv=False the load still succeeds, nothing of the
\* microenvironment matrix is stored, get_substrate_list and
\* get_substrate_dict are empty, neither table has a concentration, decay
\* rate or diffusion coefficient column of a substrate, and the unit
\* dictionary has no entry of a substrate.
C21_NoMicroenv ==
    ~self.microenv =>
        /\ LoadsWithoutMicroenv => pc # "failed"
        /\ d_mcds.raw_substrate = EmptyDict
        /\ held =>
              /\ get_substrate_list = <<>>
              /\ get_substrate_dict = EmptyDict
              /\ get_cell_df.columns \cap SubstrateNames = {}
              /\ data.substrate.df_conc.columns \cap SubstrateNames = {}
              /\ data.substrate.df_conc.columns \subseteq es_coor_conc
              /\ \A p \in 1..Len(data.substrate.df_conc.rows) :
                    DOMAIN data.substrate.df_conc.rows[p].conc = {}
              /\ DOMAIN get_unit_dict \cap SubstrateNames = {}

\* a load without the microenvironment of a bundle whose label list has a
\* per-substrate label, with agents
C21_Witness ==
    /\ ~self.microenv
    /\ held
    /\ Len(get_cell_df.rows) = 2
    /\ \E p \in 1..Len(bundle.labels) : bundle.labels[p].name = "secretion_rates"
    /\ Len(data.substrate.df_conc.rows) = 6

-----------------------------------------------------------------------------
(* The names the label list expands to.                                    *)

\* e is a run of consecutive names of the sequence ls
RunOf(e, ls) == \E o \in 0..(Len(ls) - Len(e)) : SubSeq(ls, o + 1, o + Len(e)) = e

\* the prefixes of the columns of a label of a convention set: the labels of
\* the resolved table in ascending identifier order, the positional indices
\* 0..width-1 where no table is resolved
Prefixes(table, width) ==
    IF DOMAIN table # {} THEN SortedByIntKey(table)
    ELSE [p \in 1..width |-> str(p - 1)]

\* C22: a label of the per-substrate (per-agent-type) convention set expands
\* to one column per resolved substrate (agent type) in ascending identifier
\* order, or per positional index 0..width-1 where no table is resolved,
\* each named by the label or index, an underscore and the XML label name.
C22_PrefixNames ==
    ls_variable # <<>> =>
        \A p \in 1..Len(bundle.labels) :
            LET lab   == bundle.labels[p]
                table == IF lab.name \in es_var_subs THEN d_mcds.substrate.ds_substrate
                         ELSE d_mcds.cell.ds_celltype
                pre   == Prefixes(table, lab.size)
            IN  lab.name \in es_var_subs \cup es_var_cell =>
                    RunOf([q \in 1..Len(pre) |-> pre[q] \o "_" \o lab.name], ls_variable)

-----------------------------------------------------------------------------
(* The units of the expanded names.                                        *)

\* C23: every column name a label of the XML label list expands to is a key
\* of the running unit dictionary, mapped to the unit the label declares;
\* so it is in the unit dictionary of the loaded object, the identifier ID
\* excepted.
C23_ExpandedUnits ==
    ls_variable # <<>> =>
        \A p \in 1..Len(bundle.labels) :
            LET lab  == bundle.labels[p]
                cols == ExpandLabel(lab, d_mcds.substrate.ds_substrate,
                                    d_mcds.cell.ds_celltype)
            IN  \A q \in 1..Len(cols) :
                    /\ cols[q] \in DOMAIN d_mcds.raw_cell.units
                    /\ d_mcds.raw_cell.units[cols[q]] = lab.units
                    /\ (held /\ cols[q] # "ID") =>
                          /\ cols[q] \in DOMAIN get_unit_dict
                          /\ get_unit_dict[cols[q]] = lab.units

-----------------------------------------------------------------------------
(* Loads of a bundle with a boolean network states file.                   *)

\* the states a line of the file holds: 'A -- B', 'AB', '<nil>', 'B'
StateTexts == {<<"A">> \o NodeSeparator \o <<"B">>, <<"A", "B">>, Nil, <<"B">>}

\* agent matrices in ID order from 0, in another order, with other IDs
StateAgents == {<<Agent(0, 1, 1, 0, 0), Agent(1, 3, 1, 0, 1)>>,
                <<Agent(1, 3, 1, 0, 1), Agent(0, 1, 1, 0, 0)>>,
                <<Agent(4, 0, 2, 0, 1), Agent(7, 5, 0, 0, 0)>>}

\* the states files written for the agents: a line for each agent of a
\* subset, in ascending ID order
StatesFiles(agents) ==
    LET ids == {agents[p].ID : p \in 1..Len(agents)}
    IN  UNION {{[p \in 1..Len(SortedInts(S)) |->
                    [ID |-> SortedInts(S)[p], state |-> f[SortedInts(S)[p]]]] :
                  f \in [S -> StateTexts]} : S \in SUBSET ids}

InitPhysiboss ==
    \E agents \in StateAgents, physiboss \in BOOLEAN, exists \in BOOLEAN :
      \E states \in StatesFiles(agents) :
        LET files == Bundle(TRUE, << <<"0", "cancer">>, <<"1", "immune">> >>, TRUE,
                            << <<"0", "tumor">>, <<"1", "tcell">> >>,
                            Mesh(3, 2, 1, UniformVolume(6)),
                            << [name |-> "oxygen", units |-> "mmHg"] >>, BaseLabels,
                            FALSE, SumSize(BaseLabels), agents,
                            GraphSetup(TRUE, TRUE, TRUE, TRUE, TRUE, TRUE))
        IN  /\ ~exists => states = <<>>
            /\ Constructed([Args("PhysiCell_settings.xml", TRUE, TRUE)
                               EXCEPT !.physiboss = physiboss],
                           IF exists THEN DictMerge(files, [states |-> states])
                           ELSE files)

SpecPhysiboss == InitPhysiboss /\ [][Next]_vars

\* C24: with the physiboss block on and the states file present, every agent
\* row has the state, the null-state flag and the node flags of the line of
\* the file whose key is the agent's ID, and missing values where the file
\* has no such line, whatever the order and the IDs of the agents; the flag
\* node_<n> is true exactly when n is one of the nodes the state lists.
C24_StateByID ==
    (held /\ self.physiboss /\ "states" \in DOMAIN bundle) =>
        \A p \in 1..Len(get_cell_df.rows) :
            LET row  == get_cell_df.rows[p]
                line == SelectSeq(bundle.states, LAMBDA l : l.ID = row.ID)
            IN  IF line = <<>> THEN row.physiboss = <<>>
                ELSE LET listed == Range(SplitText(line[1].state, NodeSeparator))
                     IN  /\ row.physiboss # <<>>
                         /\ row.physiboss[1].state = line[1].state
                         /\ row.physiboss[1].state_nil = (Nil \in listed)
                         /\ \A n \in DOMAIN row.physiboss[1].node :
                               row.physiboss[1].node[n] = (n \in listed)

-----------------------------------------------------------------------------
(* The voxel of an agent.                                                  *)

\* the mesh of axes [0, 10, 20], [0, 10], [0] with voxels of 10 x 10 x 20
ScenarioMesh ==
    [x_coordinates |-> <<0, 10, 20>>,
     y_coordinates |-> <<0, 10>>,
     z_coordinates |-> <<0>>,
     bounding_box  |-> <<-5, -5, -10, 25, 15, 10>>,
     volume        |-> [v \in 1..6 |-> 2000]]

\* index is the index of a centre of the axis nearest to the position
NearestCentre(index, axis, position) ==
    /\ index \in 0..(Len(axis) - 1)
    /\ \A e \in 1..Len(axis) :
          Distance(axis[index + 1], position) <= Distance(axis[e], position)

\* C25: for every agent and every axis the stored voxel index is the index
\* of the mesh centre nearest to the agent's position, the clamped
\* round((position - axis minimum) / spacing); an agent at (9, 4, 0) on the
\* mesh of axes [0, 10, 20], [0, 10], [0] gets (1, 0, 0).
C25_NearestVoxel ==
    /\ LET row == VoxelRows(<<Agent(0, 9, 4, 0, 0)>>, MeshDict(ScenarioMesh))[1]
       IN  <<row.voxel_i, row.voxel_j, row.voxel_k>> = <<1, 0, 0>>
    /\ held =>
          \A p \in 1..Len(get_cell_df.rows) :
              LET row == get_cell_df.rows[p]
              IN  /\ NearestCentre(row.voxel_i, data.mesh.mnp_axis[1], row.position_x)
                  /\ NearestCentre(row.voxel_j, data.mesh.mnp_axis[2], row.position_y)
                  /\ NearestCentre(row.voxel_k, data.mesh.mnp_axis[3], row.position_z)

-----------------------------------------------------------------------------
(* The agents per voxel.                                                   *)

\* the sum of count[v] over the voxels v of the set
RECURSIVE SumCounts(_, _)
SumCounts(voxels, count) ==
    IF voxels = {} THEN 0
    ELSE LET v == CHOOSE w \in voxels : TRUE
         IN  count[v] + SumCounts(voxels \ {v}, count)

\* C26: in every agent row cell_count_voxel is the number of agents of the
\* matrix whose clamped voxel indices are the row's, and the density is that
\* count over the voxel volume; so the counts of the occupied voxels sum up
\* to the number of agents of the matrix.
C26_AgentsPerVoxel ==
    held =>
        LET rows    == get_cell_df.rows
            voxels  == VoxelRows(bundle.agents, data.mesh)
            inside(v) == Cardinality({q \in 1..Len(voxels) : Voxel(voxels[q]) = v})
            occupied == {Voxel(rows[p]) : p \in 1..Len(rows)}
            count   == [v \in occupied |->
                          (CHOOSE p \in 1..Len(rows) : Voxel(rows[p]) = v)]
        IN  /\ \A p \in 1..Len(rows) :
                  /\ rows[p].cell_count_voxel = inside(Voxel(rows[p]))
                  /\ rows[p].cell_density = <<inside(Voxel(rows[p])), get_voxel_volume>>
            /\ SumCounts(occupied, [v \in occupied |-> rows[count[v]].cell_count_voxel])
                  = Len(bundle.agents)

-----------------------------------------------------------------------------
(* The concentrations.                                                     *)

\* C27: with the microenvironment loaded, for every species s in declaration
\* order and every column v of the matrix files, the row of the
\* concentration table whose mesh centre is the centre in column v of the
\* mesh file has in the column of s the value of row 4 + s, column v of the
\* microenvironment matrix; an agent row has the concentrations of the row
\* of the agent's voxel indices.
C27_ScatterByCentre ==
    (held /\ self.microenv) =>
        LET centre == MeshCentres(bundle.mesh)
            names  == [p \in 1..Len(bundle.variables) |-> bundle.variables[p].name]
            ar     == MicroenvMatrix(bundle.mesh, names)
            df     == data.substrate.df_conc
        IN  /\ \A v \in 1..Len(centre), s \in 0..(Len(names) - 1) :
                  /\ \E p \in 1..Len(df.rows) :
                        <<df.rows[p].mesh_center_m, df.rows[p].mesh_center_n,
                          df.rows[p].mesh_center_p>> = centre[v]
                  /\ \A p \in 1..Len(df.rows) :
                        <<df.rows[p].mesh_center_m, df.rows[p].mesh_center_n,
                          df.rows[p].mesh_center_p>> = centre[v]
                            => df.rows[p].conc[names[s + 1]] = ar[4 + s][v]
            /\ \A q \in 1..Len(get_cell_df.rows), p \in 1..Len(df.rows) :
                  Voxel(df.rows[p]) = Voxel(get_cell_df.rows[q])
                      => get_cell_df.rows[q].conc = df.rows[p].conc

-----------------------------------------------------------------------------
(* The least number of distinct values.                                    *)

\* the column passes the lists: it is in keep where keep is given, and is
\* not in drop else
PassesLists(c, args) == IF args.keep # {} THEN c \in args.keep ELSE c \notin args.drop

\* C28: in get_cell_df and get_conc_df the threshold on the distinct values
\* comes on top of the lists: the columns returned outside the coordinate
\* set are exactly those that pass the lists and, for values > 1, have at
\* least values distinct values in the (z-sliced) table; a column in keep
\* with fewer values is removed, with values = 1 every column in keep is
\* returned.
C28_ValuesOnTopOfLists ==
    /\ (ret.acc = "get_conc_df" /\ ~ret.res.exit) =>
          LET df      == data.substrate.df_conc
              centres == {ret.res.df.rows[p].mesh_center_p : p \in 1..Len(ret.res.df.rows)}
              sliced  == SelectSeq(df.rows, LAMBDA r : r.mesh_center_p \in centres)
              few(c)  == Cardinality({sliced[p].conc[c] : p \in 1..Len(sliced)})
                            < ret.args.values
          IN  /\ ret.res.df.columns \ es_coor_conc =
                    {c \in df.columns \ es_coor_conc :
                        PassesLists(c, ret.args) /\ ~(ret.args.values > 1 /\ few(c))}
              /\ ret.args.values = 1 =>
                    ret.args.keep \cap df.columns \subseteq ret.res.df.columns
    /\ (ret.acc = "get_cell_df" /\ ~ret.res.exit) =>
          LET df     == data.cell.df_cell
              few(c) == Cardinality({CellValue(df.rows[p], c) : p \in 1..Len(df.rows)})
                            < ret.args.values
          IN  /\ ret.res.df.columns \ es_coor_cell =
                    {c \in df.columns \ es_coor_cell :
                        PassesLists(c, ret.args) /\ ~(ret.args.values > 1 /\ few(c))}
              /\ ret.args.values = 1 =>
                    ret.args.keep \cap df.columns \subseteq ret.res.df.columns

\* keep names oxygen and values asks for 4 distinct values: on the slice of
\* one z centre of the 1 x 2 x 2 mesh oxygen has 2 values and is removed
C28_Witness ==
    /\ ret.acc = "get_conc_df"
    /\ ret.args.keep = {"oxygen"}
    /\ ret.args.values = 4
    /\ ~ret.res.exit
    /\ Len(ret.res.df.rows) = 2
    /\ "oxygen" \in data.substrate.df_conc.columns
    /\ "oxygen" \notin ret.res.df.columns

-----------------------------------------------------------------------------
(* The voxel of a position.                                                *)

\* C29: for every position is_in_mesh accepts, the faces of the bounding box
\* included, get_voxel_ijk returns indices inside the voxel index ranges.
C29_VoxelOfPositionInRange ==
    held =>
        \A x \in Coord, y \in Coord, z \in Coord :
            is_in_mesh(x, y, z) =>
                LET li_ijk == get_voxel_ijk(x, y, z, TRUE)
                    tr     == get_voxel_ijk_range
                IN  /\ Len(li_ijk) = 3
                    /\ \A a \in 1..3 :
                          /\ tr[a] = <<0, Len(data.mesh.mnp_axis[a]) - 1>>
                          /\ tr[a][1] <= li_ijk[a]
                          /\ li_ijk[a] <= tr[a][2]

-----------------------------------------------------------------------------
(* A source identifier on several lines of a graph file.                   *)

\* C30: graphfile_parser keeps one entry per source identifier: the result
\* has as many keys as the file has distinct source identifiers, and an
\* identifier that heads several lines is mapped to the set of the last of
\* them only, the sets of the earlier lines replaced, not united.
C30_LastLineWins ==
    pc = "parsed" =>
        LET sources == {bundle[p].id : p \in 1..Len(bundle)}
            last(k) == Max({p \in 1..Len(bundle) : bundle[p].id = k})
        IN  /\ Cardinality(DOMAIN ret.top) = Cardinality(sources)
            /\ \A k \in sources : k \in DOMAIN ret.top /\ ret.top[k] = bundle[last(k)].ids

\* the file "5:2,7" "5:12" gives {5: {12}}
C30_Witness ==
    /\ pc = "parsed"
    /\ Len(bundle) = 2
    /\ bundle[1].text = <<"5", ":", "2", ",", "7">>
    /\ bundle[2].text = <<"5", ":", "1", "2">>
    /\ DOMAIN ret.top = {5}
    /\ ret.top[5] = {12}

====
